---- MODULE Spec2Model ----
(***************************************************************************)
(* A model of cellarr-frame: the dataframe adapters over TileDB arrays.    *)
(*                                                                         *)
(*   SpecSparse  the sparse adapter (sparse.py): write_dataframe and       *)
(*               read_dataframe over a 2-D array of coordinate records.    *)
(*   SpecDense   the dense adapter (dense.py, frame.py): row slices and    *)
(*               queries over a 1-D dense array with fill sentinels.       *)
(*   SpecBase    the base adapter (base.py, helpers.py): construction,     *)
(*               the open_array scope, the handles it opens and closes.    *)
(*   SpecMeta    the cached metadata accessors of an adapter of a uri      *)
(*               (base.py) under write_batch (frame.py).                   *)
(*                                                                         *)
(* The storage engine (TileDB, cellarr_array) is the environment: only     *)
(* what the adapters rely on is modelled (records written are records      *)
(* read, inclusive ranges, fill values of unwritten or unmatched cells).   *)
(***************************************************************************)
EXTENDS Integers, Sequences, FiniteSets, TLC

VARIABLES
    d_sparse,    \* the array is sparse (read through CellArrayFrame only)
    d_dims,      \* the names of the array's dimensions
    d_rows,      \* the array: [written row index -> [attribute -> cell]]
    d_op,        \* the last operation on the array
    d_args,      \* the arguments of the last read
    d_engine,    \* the subset the last read handed to the engine
    d_res,       \* what the last read returned
    d_hist,      \* the appends so far: [pure, n, cat], and whether the last
                 \* write_dataframe found its rows in place: kept
    lb_df,       \* a frame with labelled axes, handed to write_dataframe
    lb_store,    \* the coordinate records of that frame: [<<row, col>> -> string]
    lb_res,      \* what read_dataframe returned of them
    lb_op,       \* the last operation on the labelled array
    b_kind,      \* the schema of the array at the adapter's uri
    b_coords,    \* the first-dimension coordinates that hold data
    b_exists,    \* an array exists at the uri
    b_ext,       \* the caller's own array object: [isopen, mode]
    b_ad,        \* the adapter: [state, passed (_array_passed_in), mode (_mode)]
    b_cache,     \* _column_names, _index_names, _shape, _index
    b_stack,     \* the calls in progress, innermost last: [op, ph, own]
    b_handles,   \* the modes of the handles the adapter has opened and not closed
    b_call,      \* the caller's current (or last) call and its arguments
    b_ret,       \* what the last call returned or raised
    b_scope,     \* the last entry of open_array: [stale, reopens, yielded, body]
    b_opens,     \* arrays opened or reopened by the adapter during the call
    b_creates,   \* arrays created during the call
    sp_store,    \* sparse array: [<<row, col>> -> stored string]
    sp_df,       \* the frame handed to the last write_dataframe
    sp_args,     \* the arguments of the last read_dataframe
    sp_fetch,    \* the fetches the last read_dataframe made of the array
    sp_res,      \* what the last read_dataframe returned
    sp_op,       \* the last operation: "init", "write", "read"
    sp_wopens,   \* arrays opened for writing by the last operation
    sp_cwrites,  \* coordinate records written by the last operation
    sp_fresh,    \* the store holds one write_dataframe made on an empty array
    sp_nw        \* number of write_dataframe calls so far

sparseVars == <<sp_store, sp_df, sp_args, sp_fetch, sp_res, sp_op, sp_wopens, sp_cwrites,
                sp_fresh, sp_nw>>

denseVars == <<d_sparse, d_dims, d_rows, d_op, d_args, d_engine, d_res, d_hist>>

baseVars == <<b_kind, b_coords, b_exists, b_ext, b_ad, b_cache, b_stack, b_handles,
              b_call, b_ret, b_scope, b_opens, b_creates>>

labelVars == <<lb_df, lb_store, lb_res, lb_op>>

vars == <<sparseVars, denseVars, baseVars, labelVars>>

\* what the operations of one adapter leave alone
notSparse == <<denseVars, baseVars, labelVars>>

notDense == <<sparseVars, baseVars, labelVars>>

notBase == <<sparseVars, denseVars, labelVars>>

notLabel == <<sparseVars, denseVars, baseVars>>

----------------------------------------------------------------------------
(* Generic helpers *)

Range(s) == {s[i] : i \in DOMAIN s}

Min(S) == CHOOSE x \in S : \A y \in S : x <= y

Max(S) == CHOOSE x \in S : \A y \in S : x >= y

RECURSIVE SortedSeq(_)
\* the elements of a finite set of integers in ascending order
SortedSeq(S) == IF S = {} THEN <<>> ELSE <<Min(S)>> \o SortedSeq(S \ {Min(S)})

\* the sequences of distinct elements of S, of length 1 .. n
DistinctSeqs(S, n) ==
    UNION {{s \in [1..k -> S] : \A i, j \in 1..k : i # j => s[i] # s[j]} : k \in 1..n}

None == "None"

----------------------------------------------------------------------------
(* Cell values of a pandas frame.  k is the Python type of the cell:       *)
(* "nan" a missing cell, "int" the integer n, "str" the string s.          *)

NaN == [k |-> "nan", n |-> 0, s |-> ""]

IntV(i) == [k |-> "int", n |-> i, s |-> ""]

StrV(t) == [k |-> "str", n |-> 0, s |-> t]

\* decimal form of the integers of the model
Digits == [i \in {1, 2} |-> IF i = 1 THEN "1" ELSE "2"]

\* sdf.to_numpy(dtype=str): the string form of a non-missing cell
ToStr(v) == IF v.k = "int" THEN Digits[v.n] ELSE v.s

IsNumericStr(t) == \E i \in DOMAIN Digits : Digits[i] = t

ParseInt(t) == CHOOSE i \in DOMAIN Digits : Digits[i] = t

\* pd.to_numeric over the cells of one column, errors="ignore": every
\* non-missing cell is parsed, or the column comes back unchanged
ToNumericIgnore(col) ==
    IF \A x \in DOMAIN col : col[x].k = "str" => IsNumericStr(col[x].s)
    THEN [x \in DOMAIN col |-> IF col[x].k = "str" THEN IntV(ParseInt(col[x].s)) ELSE col[x]]
    ELSE col

----------------------------------------------------------------------------
(* Sparse adapter: bounds and inputs *)

MaxCells == 2

MaxWrites == 2

RowLabels == {1, 2}

ColLabels == {1, 2}

CellValues == {NaN, IntV(1), StrV("a"), StrV("1")}

StoredStrings == {ToStr(v) : v \in CellValues \ {NaN}}

Shapes ==
    {sh \in DistinctSeqs(RowLabels, MaxCells) \X DistinctSeqs(ColLabels, MaxCells) :
        Len(sh[1]) * Len(sh[2]) <= MaxCells}

\* a frame: row labels and column labels in order, and one cell per pair
Frames ==
    UNION {{[tag |-> "frame", idx |-> sh[1], cols |-> sh[2], cell |-> f] :
                f \in [Range(sh[1]) \X Range(sh[2]) -> CellValues]} : sh \in Shapes}

\* pd.DataFrame(): no rows, no columns
EmptyFrame == [tag |-> "frame", idx |-> <<>>, cols |-> <<>>, cell |-> <<>>]

\* no frame (nothing written yet, nothing returned)
NoFrame == [tag |-> "none", idx |-> <<>>, cols |-> <<>>, cell |-> <<>>]

\* columns=None and columns=[] are the same to "if columns:"
NoColumns == <<>>

\* subset=None
NoRows == [given |-> FALSE, lo |-> 0, hi |-> 0]

\* subset=slice(lo, hi)
RowSlice(lo, hi) == [given |-> TRUE, lo |-> lo, hi |-> hi]

\* row subsets: one per row label, all the labels, and one below every label
RowSubsets ==
    {NoRows, RowSlice(0, 1), RowSlice(Min(RowLabels), Max(RowLabels) + 1)}
    \cup {RowSlice(r, r + 1) : r \in RowLabels}

NoArgs == [subset |-> NoRows, columns |-> NoColumns, query |-> None]

\* query conditions of the form  value == '<t>'
Queries == {None} \cup StoredStrings

ColumnLists == {NoColumns} \cup {<<c>> : c \in ColLabels}

----------------------------------------------------------------------------
(* Sparse adapter: write_dataframe *)

\* a stack() that keeps the missing cells
StackedKeepMissing(df) == DOMAIN df.cell

\* df.stack(future_stack=True).dropna(): the (row, col) pairs with a value
Stacked(df) == {p \in DOMAIN df.cell : df.cell[p].k # "nan"}

\* A[rows, cols] = values: the records of the write replace those stored at
\* the same coordinates
EngineWrite(store, df) ==
    [p \in DOMAIN store \cup Stacked(df) |->
        IF p \in Stacked(df) THEN ToStr(df.cell[p]) ELSE store[p]]

\* the store after write_dataframe(df)
WriteStore(store, df) == IF Stacked(df) = {} THEN store ELSE EngineWrite(store, df)

\* a write_dataframe that opens the array before looking at the frame
WriteOpensAlways(df) == 1

\* arrays opened in mode "w" by write_dataframe(df)
WriteOpens(df) == IF Stacked(df) = {} THEN 0 ELSE 1

\* coordinate records handed to the engine by write_dataframe(df)
WriteCoords(df) == IF Stacked(df) = {} THEN 0 ELSE Cardinality(Stacked(df))

WriteDataframe(df) ==
    /\ sp_nw < MaxWrites
    /\ sp_store' = WriteStore(sp_store, df)
    /\ sp_df' = df
    /\ sp_wopens' = WriteOpens(df)
    /\ sp_cwrites' = WriteCoords(df)
    /\ sp_fresh' = (DOMAIN sp_store = {})
    /\ sp_nw' = sp_nw + 1
    /\ sp_op' = "write"
    /\ sp_res' = NoFrame
    /\ sp_args' = NoArgs
    /\ sp_fetch' = <<>>
    /\ UNCHANGED notSparse

----------------------------------------------------------------------------
(* Sparse adapter: read_dataframe *)

\* a read that applies the query and the subset together
SelectedBoth(store, subset, query) ==
    {p \in DOMAIN store : (query # None => store[p] = query)
                            /\ (subset.given => subset.lo <= p[1] /\ p[1] < subset.hi)}

\* the records of the one fetch read_dataframe makes: self._array[query] when
\* a query is given, else self._array[subset] when a subset is, else
\* self._array[:]
Selected(store, subset, query) ==
    IF query # None THEN {p \in DOMAIN store : store[p] = query}
    ELSE IF subset.given THEN {p \in DOMAIN store : subset.lo <= p[1] /\ p[1] < subset.hi}
    ELSE DOMAIN store

\* the fetches read_dataframe makes: one, by query, by subset or of everything
Fetches(subset, query) ==
    IF query # None THEN <<[kind |-> "query", subset |-> NoRows, query |-> query]>>
    ELSE IF subset.given THEN <<[kind |-> "subset", subset |-> subset, query |-> None]>>
    ELSE <<[kind |-> "scan", subset |-> NoRows, query |-> None]>>

\* an unstack() that lists the labels from the last to the first
UnstackDescending(store, sel) ==
    LET rs == {p[1] : p \in sel}
        cs == {p[2] : p \in sel}
        down(q) == [i \in DOMAIN q |-> q[Len(q) + 1 - i]]
    IN  [tag |-> "frame", idx |-> down(SortedSeq(rs)), cols |-> down(SortedSeq(cs)),
         cell |-> [p \in rs \X cs |-> IF p \in sel THEN StrV(store[p]) ELSE NaN]]

\* an unstack() that keeps a row for every row label stored in the array
UnstackStoredRows(store, sel) ==
    LET rs == {p[1] : p \in DOMAIN store}
        cs == {p[2] : p \in sel}
    IN  [tag |-> "frame", idx |-> SortedSeq(rs), cols |-> SortedSeq(cs),
         cell |-> [p \in rs \X cs |-> IF p \in sel THEN StrV(store[p]) ELSE NaN]]

\* pd.Series(values, index=[rows, cols]).unstack(): one row per row label and
\* one column per column label of the records, both sorted; no record, no value
Unstack(store, sel) ==
    LET rs == {p[1] : p \in sel}
        cs == {p[2] : p \in sel}
    IN  [tag |-> "frame", idx |-> SortedSeq(rs), cols |-> SortedSeq(cs),
         cell |-> [p \in rs \X cs |-> IF p \in sel THEN StrV(store[p]) ELSE NaN]]

\* df[col] = pd.to_numeric(df[col], errors="ignore") for every column
CoerceColumns(f) ==
    LET rs == Range(f.idx)
        conv(c) == ToNumericIgnore([r \in rs |-> f.cell[<<r, c>>]])
    IN  [f EXCEPT !.cell = [p \in DOMAIN f.cell |-> conv(p[2])[p[1]]]]

\* df.index = pd.to_numeric(df.index), df.columns = pd.to_numeric(df.columns):
\* the labels of integer dimensions are numbers already and stay as they are
CoerceAxes(f) == [f EXCEPT !.idx = f.idx, !.cols = f.cols]

\* df[columns]: the named columns, in the order asked
SelectColumns(f, columns) ==
    [tag |-> "frame", idx |-> f.idx, cols |-> columns,
     cell |-> [p \in Range(f.idx) \X Range(columns) |-> f.cell[p]]]

\* df[columns] with a label that is no column of df raises KeyError
KeyErrorFrame == [tag |-> "KeyError", idx |-> <<>>, cols |-> <<>>, cell |-> <<>>]

\* a read that selects the columns asked before it looks for records
ReadResultColumnsFirst(store, subset, columns, query) ==
    LET sel == Selected(store, subset, query)
        df  == CoerceColumns(CoerceAxes(Unstack(store, sel)))
    IN  IF columns # NoColumns /\ ~(Range(columns) \subseteq Range(df.cols)) THEN KeyErrorFrame
        ELSE IF sel = {} THEN EmptyFrame
        ELSE IF columns = NoColumns THEN df
        ELSE SelectColumns(df, columns)

\* read_dataframe(subset, columns, query)

ReadResult(store, subset, columns, query) ==
    LET sel == Selected(store, subset, query)
        df  == CoerceColumns(CoerceAxes(Unstack(store, sel)))
    IN  IF sel = {} THEN EmptyFrame
        ELSE IF columns = NoColumns THEN df
        ELSE IF Range(columns) \subseteq Range(df.cols) THEN SelectColumns(df, columns)
        ELSE KeyErrorFrame

\* (a read leaves the array as it is, so the read that follows a read returns
\* what it would have returned in its place: reads are taken after a write)
ReadDataframe(subset, columns, query) ==
    /\ sp_op = "write"
    /\ sp_res' = ReadResult(sp_store, subset, columns, query)
    /\ sp_args' = [subset |-> subset, columns |-> columns, query |-> query]
    /\ sp_fetch' = Fetches(subset, query)
    /\ sp_op' = "read"
    /\ sp_wopens' = 0
    /\ sp_cwrites' = 0
    /\ UNCHANGED <<sp_store, sp_df, sp_fresh, sp_nw>>
    /\ UNCHANGED notSparse


----------------------------------------------------------------------------
(* Sparse adapter on labelled axes.  create_cellarr_frame(sparse=True) gives *)
(* the two dimensions the types of the frame's axes, strings when no frame  *)
(* is given: a label is an integer or a string, as a cell value is.         *)

MaxAxis == 2

MaxPivot == 4

\* the string labels, in the order the engine and the pivot sort them
LabelStrings == <<"1", "2", "a">>

IntLabels == {IntV(1), IntV(2)}

StrLabels == {StrV(LabelStrings[i]) : i \in DOMAIN LabelStrings}

\* the place of a label in the order of its axis
LabelRank(l) ==
    IF l.k = "int" THEN l.n ELSE CHOOSE i \in DOMAIN LabelStrings : LabelStrings[i] = l.s

\* an axis: distinct labels of one type, in any order
Axes == DistinctSeqs(IntLabels, MaxAxis) \cup DistinctSeqs(StrLabels, MaxAxis)

LabelledFrames ==
    UNION {{[tag |-> "frame", idx |-> sh[1], cols |-> sh[2], cell |-> f] :
                f \in [Range(sh[1]) \X Range(sh[2]) -> CellValues]} :
           sh \in {x \in Axes \X Axes : Len(x[1]) * Len(x[2]) <= MaxPivot}}

RECURSIVE SortedLabels(_)
\* the labels of a set in ascending order
SortedLabels(S) ==
    IF S = {} THEN <<>>
    ELSE LET m == CHOOSE x \in S : \A y \in S : LabelRank(x) <= LabelRank(y)
         IN  <<m>> \o SortedLabels(S \ {m})

\* pd.Series(values, index=[rows, cols]).unstack() of all the records
UnstackLabelled(store) ==
    LET rs == {p[1] : p \in DOMAIN store}
        cs == {p[2] : p \in DOMAIN store}
    IN  [tag |-> "frame", idx |-> SortedLabels(rs), cols |-> SortedLabels(cs),
         cell |-> [p \in rs \X cs |-> IF p \in DOMAIN store THEN StrV(store[p]) ELSE NaN]]

\* pd.to_numeric(index): every label a number or the decimal form of one, or
\* ValueError
NumericAxis(axis) == \A i \in DOMAIN axis : axis[i].k = "int" \/ IsNumericStr(axis[i].s)

\* the label pd.to_numeric makes of a label
ToNumericLabel(l) == IF l.k = "str" THEN IntV(ParseInt(l.s)) ELSE l

\* try: df.index = pd.to_numeric(df.index) except (ValueError, TypeError): pass
CoerceIndex(f) ==
    IF ~NumericAxis(f.idx) THEN f
    ELSE [f EXCEPT !.idx = [i \in DOMAIN f.idx |-> ToNumericLabel(f.idx[i])],
                   !.cell = [p \in {ToNumericLabel(r) : r \in Range(f.idx)} \X Range(f.cols) |->
                                f.cell[<<CHOOSE r \in Range(f.idx) : ToNumericLabel(r) = p[1], p[2]>>]]]

\* try: df.columns = pd.to_numeric(df.columns) except (ValueError, TypeError): pass
CoerceColumnIndex(f) ==
    IF ~NumericAxis(f.cols) THEN f
    ELSE [f EXCEPT !.cols = [i \in DOMAIN f.cols |-> ToNumericLabel(f.cols[i])],
                   !.cell = [p \in Range(f.idx) \X {ToNumericLabel(c) : c \in Range(f.cols)} |->
                                f.cell[<<p[1], CHOOSE c \in Range(f.cols) : ToNumericLabel(c) = p[2]>>]]]

\* a read that gives up every coercion when the row index is not numeric
LabelledReadAllOrNothing(store) ==
    IF DOMAIN store = {} THEN EmptyFrame
    ELSE IF ~NumericAxis(UnstackLabelled(store).idx) THEN UnstackLabelled(store)
    ELSE CoerceColumns(CoerceColumnIndex(CoerceIndex(UnstackLabelled(store))))

\* read_dataframe(): the pivot of the records, its row index, its column
\* index and each of its columns made numeric where they can be
LabelledRead(store) ==
    IF DOMAIN store = {} THEN EmptyFrame
    ELSE CoerceColumns(CoerceColumnIndex(CoerceIndex(UnstackLabelled(store))))

\* write_dataframe(df) on the array just created
LabelledWrite(df) ==
    /\ lb_op = "create"
    /\ lb_store' = WriteStore(<<>>, df)
    /\ lb_op' = "write"
    /\ UNCHANGED <<lb_df, lb_res>>
    /\ UNCHANGED notLabel

\* read_dataframe()
LabelledReadDataframe ==
    /\ lb_op = "write"
    /\ lb_res' = LabelledRead(lb_store)
    /\ lb_op' = "read"
    /\ UNCHANGED <<lb_df, lb_store>>
    /\ UNCHANGED notLabel

----------------------------------------------------------------------------
(* Dense adapter: the array.  A 1-D array over row indices 0 .. DomMax,     *)
(* created by tiledb.from_pandas from a first frame, with an integer        *)
(* attribute "val" and a string attribute "name".  d_sparse tells the same  *)
(* rows kept in a sparse array (CellArrayFrame reads both kinds).           *)

DomMax == 2

MaxDfRows == 2

DenseDomain == 0..DomMax

\* the dimension of an array made by from_pandas
DimNames == <<"__tiledb_rows">>

\* the dimension of a dense array an adapter may be given: the synthetic row
\* dimension, or one the array's maker named
DimChoices == {<<"__tiledb_rows">>, <<"idx">>}

AttrNames == <<"val", "name">>

\* the fill of an integer attribute: the least value of its type, below every
\* value written
IntFill == -99

\* the null character, the fill of a string attribute
NulStr == "NUL"

BytesV(t) == [k |-> "bytes", n |-> 0, s |-> t]

\* A.attr(name).fill: the declared fill sentinel of an attribute
AttrFill(a) == IF a = "val" THEN IntV(IntFill) ELSE BytesV(NulStr)

\* fill_val.decode("ascii")
Decode(b) == StrV(b.s)

\* what a read returns for an unwritten or unmatched cell of an attribute
FillCell(a) == IF a = "val" THEN IntV(IntFill) ELSE StrV(NulStr)

\* rows a frame can hold: "val" may collide with the fill (nothing enforces
\* the contrary)
DenseRowValues == {[val |-> IntV(v), name |-> StrV("x")] : v \in {1, 2, IntFill}}

\* dense frames: 1 .. MaxDfRows rows, in order
DenseFrames == UNION {[1..k -> DenseRowValues] : k \in 1..MaxDfRows}

NoCond == [attr |-> None, op |-> None, rhs |-> NaN]

\* query conditions:  val == 1,  val < 2 (true of the fill),  name == 'x'
Conds ==
    { [attr |-> "val", op |-> "==", rhs |-> IntV(1)],
      [attr |-> "val", op |-> "<", rhs |-> IntV(2)],
      [attr |-> "name", op |-> "==", rhs |-> StrV("x")] }

Match(row, cond) ==
    IF cond.op = "==" THEN row[cond.attr] = cond.rhs
    ELSE row[cond.attr].n < cond.rhs.n

\* slice(start, stop), start or stop absent when hasStart / hasStop is FALSE;
\* an integer index i is kind "int" with start = i
Slice(hs, a, ht, b) == [kind |-> "slice", hasStart |-> hs, start |-> a, hasStop |-> ht, stop |-> b]

IntIndex(i) == [kind |-> "int", hasStart |-> TRUE, start |-> i, hasStop |-> FALSE, stop |-> 0]

NoSubset == [kind |-> "none", hasStart |-> FALSE, start |-> 0, hasStop |-> FALSE, stop |-> 0]

Subsets ==
    {Slice(TRUE, a, TRUE, b) : a \in DenseDomain, b \in 0..(DomMax + 1)}
    \cup {Slice(FALSE, 0, TRUE, b) : b \in 0..(DomMax + 1)}
    \cup {Slice(TRUE, a, FALSE, 0) : a \in DenseDomain}
    \cup {Slice(FALSE, 0, FALSE, 0)}
    \cup {IntIndex(i) : i \in DenseDomain}

DenseColumnLists == {<<>>, <<"val">>, <<"name">>, <<"name", "val">>}

\* the column selector of frame[rows, cols]: a name, a list of names, a
\* position, a list of positions (the empty list among them), a slice or a
\* range of positions
NoColSel == [kind |-> "none", names |-> <<>>, pos |-> <<>>, lo |-> 0, hi |-> 0]

ColName(c) == [NoColSel EXCEPT !.kind = "name", !.names = <<c>>]

ColNames(cs) == [NoColSel EXCEPT !.kind = "names", !.names = cs]

ColPos(i) == [NoColSel EXCEPT !.kind = "pos", !.pos = <<i>>]

ColPositions(ps) == [NoColSel EXCEPT !.kind = "positions", !.pos = ps]

ColSlice(lo, hi) == [NoColSel EXCEPT !.kind = "slice", !.lo = lo, !.hi = hi]

ColRange(lo, hi) == [NoColSel EXCEPT !.kind = "range", !.lo = lo, !.hi = hi]

ColSels ==
    {ColName("val"), ColName("name"), ColNames(<<"val">>), ColNames(<<"name", "val">>),
     ColPos(0), ColPos(1),
     ColPositions(<<>>), ColPositions(<<0>>), ColPositions(<<1>>), ColPositions(<<1, 0>>),
     ColPositions(<<2>>),
     ColSlice(0, 1), ColSlice(0, 2), ColSlice(1, 2), ColSlice(0, 0),
     ColRange(0, 2), ColRange(1, 2), ColRange(0, 0)}

\* the row keys of frame[rows, cols]: 0:2, 1 and :
TupleRows == {Slice(TRUE, 0, TRUE, 2), IntIndex(1), Slice(FALSE, 0, FALSE, 0)}

\* a string key that is the bare name of a column, not a condition
BareName(c) == [attr |-> c, op |-> None, rhs |-> NaN]

\* string keys: the query conditions and the column names
StrKeys == Conds \cup {BareName(c) : c \in Range(AttrNames)}

PkNames == {None, "val", "name", "__tiledb_rows"}

----------------------------------------------------------------------------
(* The engine's reads *)

\* A.nonempty_domain() of the first dimension, <<>> for None
NonEmptyDomain(rows) == IF DOMAIN rows = {} THEN <<>> ELSE <<Min(DOMAIN rows), Max(DOMAIN rows)>>

\* the row indices the engine returns for df[sub]: both ends inclusive, an
\* absent end is that of the non-empty domain; a dense array returns every
\* cell of the range, a sparse array the written ones
EngineRange(sparse, rows, sub) ==
    LET ned == NonEmptyDomain(rows)
        lo  == IF sub.kind = "int" \/ sub.hasStart THEN sub.start ELSE ned[1]
        hi  == IF sub.kind = "int" THEN sub.start ELSE IF sub.hasStop THEN sub.stop ELSE ned[2]
        all == IF sparse THEN DOMAIN rows ELSE DenseDomain
    IN  IF ned = <<>> THEN {} ELSE {i \in all : lo <= i /\ i <= hi}

\* the cell of attribute a the engine returns at row i under a condition:
\* the fill when the row is unwritten or fails the condition
EngineCell(rows, i, a, cond) ==
    IF i \in DOMAIN rows /\ (cond = NoCond \/ Match(rows[i], cond)) THEN rows[i][a] ELSE FillCell(a)

\* A.query(cond=cond, attrs=attrs).df[sub]
EngineDf(sparse, rows, sub, attrs, cond) ==
    LET range == EngineRange(sparse, rows, sub)
        got   == IF sparse /\ cond # NoCond THEN {i \in range : Match(rows[i], cond)} ELSE range
    IN  [tag |-> "frame", idx |-> SortedSeq(got), cols |-> attrs,
         cell |-> [p \in got \X Range(attrs) |-> EngineCell(rows, p[1], p[2], cond)]]

\* data[mask]: the rows of f at the indices of keep
FilterRows(f, keep) ==
    [tag |-> "frame", idx |-> SortedSeq(keep), cols |-> f.cols,
     cell |-> [p \in keep \X Range(f.cols) |-> f.cell[p]]]

\* result.replace(regex="\x00", value=np.nan)
ReplaceNull(f) ==
    [f EXCEPT !.cell = [p \in DOMAIN f.cell |-> IF f.cell[p] = StrV(NulStr) THEN NaN ELSE f.cell[p]]]

----------------------------------------------------------------------------
(* Dense adapter: DenseCellArrayFrame.read_dataframe *)

\* pk_candidates: the dimensions that are attributes too, or the synthetic
\* row dimension
PkCandidates(dims) ==
    SelectSeq(dims, LAMBDA d : d \in Range(AttrNames) \/ d = "__tiledb_rows")

\* primary_key_column_name after the auto-selection
PrimaryKey(dims, pk) ==
    IF pk # None THEN pk
    ELSE IF Len(PkCandidates(dims)) = 1 THEN PkCandidates(dims)[1]
    ELSE IF "__tiledb_rows" \in Range(dims) THEN "__tiledb_rows"
    ELSE None

\* all_columns: the columns asked (every attribute when none is), and the
\* primary key when it is an attribute that was not asked
AllColumns(dims, columns, pk) ==
    LET base == IF columns # NoColumns THEN columns ELSE AttrNames
        key  == PrimaryKey(dims, pk)
    IN  IF key # None /\ key \notin Range(base) /\ key \in Range(AttrNames)
        THEN Append(base, key) ELSE base

\* a filter column that is the primary key or nothing
FilterTargetNoFallback(dims, columns, pk) ==
    LET cols == AllColumns(dims, columns, pk)
        key  == PrimaryKey(dims, pk)
    IN  IF key # None /\ key \in Range(cols) /\ key \in Range(AttrNames) THEN key ELSE None

\* filter_target_col: the primary key when it is a fetched attribute, else
\* the first fetched column that is an attribute
FilterTarget(dims, columns, pk) ==
    LET cols == AllColumns(dims, columns, pk)
        key  == PrimaryKey(dims, pk)
        hits == SelectSeq(cols, LAMBDA c : c \in Range(AttrNames))
    IN  IF key # None /\ key \in Range(cols) /\ key \in Range(AttrNames) THEN key
        ELSE IF hits # <<>> THEN hits[1] ELSE None

\* a comparison with the fill as the engine declares it, not decoded
FillToCompareRaw(a) == AttrFill(a)

\* the value rows are compared with: the fill, decoded when it is bytes
FillToCompare(a) == IF AttrFill(a).k = "bytes" THEN Decode(AttrFill(a)) ELSE AttrFill(a)

\* a query read that returns the engine's rows as they come
FilterFillKeepAll(data, target) == data

\* filtered_df: data without the rows whose target column holds the fill
FilterFill(data, target) ==
    IF target = None THEN data
    ELSE FilterRows(data, {i \in Range(data.idx) : data.cell[<<i, target>>] # FillToCompare(target)})

\* a slice handed to the engine as the caller wrote it
AdjustDenseNone(sub) == sub

\* adjusted_subset: a slice with a positive stop above its start has its stop
\* lowered by one, the engine's upper end being inclusive
AdjustDense(sub) ==
    IF sub.kind = "slice" /\ sub.hasStop
          /\ (~sub.hasStart \/ sub.stop > sub.start) /\ sub.stop > 0
    THEN [sub EXCEPT !.stop = sub.stop - 1]
    ELSE sub

\* result[columns] when columns are given
Project(f, columns) == IF columns # NoColumns THEN SelectColumns(f, columns) ELSE f

\* the subset read_dataframe hands to the engine
DenseEngineSubset(cond, sub) ==
    IF cond # NoCond THEN Slice(FALSE, 0, FALSE, 0)
    ELSE IF sub # NoSubset THEN AdjustDense(sub)
    ELSE Slice(FALSE, 0, FALSE, 0)

\* read_dataframe(columns, query, subset, primary_key_column_name)
DenseRead(dims, rows, columns, cond, sub, pk) ==
    LET data == EngineDf(FALSE, rows, Slice(FALSE, 0, FALSE, 0), AllColumns(dims, columns, pk), cond)
    IN  IF cond # NoCond
        THEN ReplaceNull(Project(FilterFill(data, FilterTarget(dims, columns, pk)), columns))
        ELSE ReplaceNull(Project(EngineDf(FALSE, rows, DenseEngineSubset(cond, sub), AttrNames, NoCond),
                                 columns))

----------------------------------------------------------------------------
(* CellArrayFrame._read_slice and the writes *)

\* a slice handed to the engine as the caller wrote it
AdjustFrameNone(sub) == sub

\* _read_slice: an integer stop is lowered by one; stop 0 without a start
\* becomes -1
AdjustFrame(sub) ==
    IF sub.kind = "slice" /\ sub.hasStop
    THEN IF sub.stop = 0 /\ ~sub.hasStart THEN [sub EXCEPT !.stop = -1]
         ELSE [sub EXCEPT !.stop = sub.stop - 1]
    ELSE sub

\* _read_slice(rows, cols): array.query(attrs=attrs).df[rows]
FrameReadSliceResult(sparse, rows, sub, cols) ==
    EngineDf(sparse, rows, AdjustFrame(sub), IF cols # NoColumns THEN cols ELSE AttrNames, NoCond)

\* what a raise leaves in place of a frame
IndexErrorFrame == [tag |-> "IndexError", idx |-> <<>>, cols |-> <<>>, cell |-> <<>>]

EngineErrorFrame == [tag |-> "EngineError", idx |-> <<>>, cols |-> <<>>, cell |-> <<>>]

\* "if cols_list:" of a list, a slice or a range
Truthy(cols) ==
    CASE cols.kind \in {"name", "pos", "slice"} -> TRUE
      [] cols.kind = "names" -> cols.names # <<>>
      [] cols.kind = "positions" -> cols.pos # <<>>
      [] cols.kind = "range" -> cols.hi > cols.lo
      [] OTHER -> FALSE

\* all_cols[lo:hi]
ColumnsAt(all, lo, hi) == SubSeq(all, lo + 1, Min({hi, Len(all)}))

\* DenseCellArrayFrame.__getitem__, the columns of a tuple key: positions are
\* resolved against self.columns when cols_list is truthy; the list handed to
\* read_dataframe, which reads every column when that list is empty
DenseColumns(cols) ==
    IF ~Truthy(cols) THEN [err |-> FALSE, names |-> NoColumns]
    ELSE CASE cols.kind \in {"slice", "range"} ->
                 [err |-> FALSE, names |-> ColumnsAt(AttrNames, cols.lo, cols.hi)]
           [] cols.kind \in {"pos", "positions"} ->
                 IF \E j \in DOMAIN cols.pos : cols.pos[j] >= Len(AttrNames)
                 THEN [err |-> TRUE, names |-> <<>>]
                 ELSE [err |-> FALSE,
                       names |-> [j \in DOMAIN cols.pos |-> AttrNames[cols.pos[j] + 1]]]
           [] OTHER -> [err |-> FALSE, names |-> cols.names]

\* ddf[rows, cols]: read_dataframe(subset=rows, columns=cols_list)
DenseGetItemTupleResult(dims, rows, key, cols) ==
    LET c == DenseColumns(cols)
    IN  IF c.err THEN IndexErrorFrame
        ELSE DenseRead(dims, rows, c.names, NoCond, key, None)

\* a dense adapter that takes a string key for a condition, as the base
\* adapter does
DenseGetItemStrAsQuery(dims, rows, key) ==
    IF key.op = None THEN EngineErrorFrame
    ELSE DenseRead(dims, rows, NoColumns, key, NoSubset, None)

\* ddf[s] with a string s: read_dataframe(columns=[s]), a KeyError when s is
\* no column
DenseGetItemStrResult(dims, rows, key) ==
    IF key.op = None /\ key.attr \in Range(AttrNames)
    THEN DenseRead(dims, rows, <<key.attr>>, NoCond, NoSubset, None)
    ELSE KeyErrorFrame

\* attrs of CellArrayFrame._read_slice / _read_query: cols as it was given
\* when it is not None; the engine takes a list of names and nothing else
FrameAttrs(cols) ==
    CASE cols.kind = "none" -> [err |-> FALSE, names |-> AttrNames]
      [] cols.kind \in {"name", "names"} -> [err |-> FALSE, names |-> cols.names]
      [] cols.kind = "positions" /\ cols.pos = <<>> -> [err |-> FALSE, names |-> <<>>]
      [] OTHER -> [err |-> TRUE, names |-> <<>>]

\* cf[rows, cols]: _read_slice(rows, cols)
FrameGetItemTupleResult(sparse, rows, key, cols) ==
    IF FrameAttrs(cols).err THEN EngineErrorFrame
    ELSE EngineDf(sparse, rows, AdjustFrame(key), FrameAttrs(cols).names, NoCond)

\* cf[s] with a string s: _read_query(condition=s, columns=None); a string
\* that is no condition is refused by the engine
FrameGetItemStrResult(sparse, rows, key) ==
    IF key.op = None THEN EngineErrorFrame
    ELSE EngineDf(sparse, rows, Slice(FALSE, 0, FALSE, 0), AttrNames, key)

\* get_shape()[0]: the largest written row index + 1, 0 when nothing is written
GetShapeRows(rows) == IF NonEmptyDomain(rows) = <<>> THEN 0 ELSE NonEmptyDomain(rows)[2] + 1

\* tiledb.from_pandas(mode="append", row_start_idx=offset): the rows of df
\* replace the rows offset .. offset + len(df) - 1
EngineAppend(rows, df, offset) ==
    [i \in DOMAIN rows \cup (offset..(offset + Len(df) - 1)) |->
        IF i >= offset /\ i < offset + Len(df) THEN df[i - offset + 1] ELSE rows[i]]

\* no append yet
NoHist == [pure |-> FALSE, n |-> 0, cat |-> <<>>, kept |-> FALSE]

\* an append that writes at row 0 when no row_offset is given
AppendOffsetZero(rows, given, offset) == IF given THEN offset ELSE 0

\* an append that writes after the last row whatever row_offset is given
AppendOffsetIgnored(rows, given, offset) == GetShapeRows(rows)

\* row_offset of append_dataframe: the one given, or the current row count
AppendOffset(rows, given, offset) == IF given THEN offset ELSE GetShapeRows(rows)

\* the appends so far: while the array started without rows and every append
\* left row_offset out, their number and the frames appended, one after another
HistAfter(hist, df, given) ==
    IF hist.pure /\ ~given THEN [pure |-> TRUE, n |-> hist.n + 1, cat |-> hist.cat \o df, kept |-> FALSE]
    ELSE NoHist

\* the arguments of a read
NoDenseArgs ==
    [columns |-> NoColumns, cond |-> NoCond, sub |-> NoSubset, pk |-> None,
     colsel |-> NoColSel, key |-> NoCond]

\* A read leaves the array as it is: the read that follows a read returns what
\* it would have returned in its place, and the appends that follow it reach
\* no new array.  Each behaviour is therefore a creation, appends, one read.
ArrayJustWritten == d_op \in {"create", "append", "write"}

\* an append, a write or a shape may follow any of them
AdapterIdle == d_op \in {"create", "append", "write", "shape"}

\* DenseCellArrayFrame.read_dataframe
DenseReadDataframe(columns, cond, sub, pk) ==
    /\ ArrayJustWritten
    /\ ~d_sparse
    /\ d_res' = DenseRead(d_dims, d_rows, columns, cond, sub, pk)
    /\ d_engine' = DenseEngineSubset(cond, sub)
    /\ d_args' = [NoDenseArgs EXCEPT !.columns = columns, !.cond = cond, !.sub = sub, !.pk = pk]
    /\ d_op' = "read_dataframe"
    /\ UNCHANGED <<d_sparse, d_dims, d_rows, d_hist>>
    /\ UNCHANGED notDense

\* DenseCellArrayFrame.__getitem__ with a slice or an integer key
DenseGetItem(key) ==
    /\ ArrayJustWritten
    /\ ~d_sparse
    /\ d_res' = DenseRead(d_dims, d_rows, NoColumns, NoCond, key, None)
    /\ d_engine' = DenseEngineSubset(NoCond, key)
    /\ d_args' = [NoDenseArgs EXCEPT !.sub = key]
    /\ d_op' = "getitem"
    /\ UNCHANGED <<d_sparse, d_dims, d_rows, d_hist>>
    /\ UNCHANGED notDense

\* CellArrayFrame._read_slice (also what cf[rows, cols] ends in)
FrameReadSlice(sub, cols) ==
    /\ ArrayJustWritten
    /\ d_res' = FrameReadSliceResult(d_sparse, d_rows, sub, cols)
    /\ d_engine' = AdjustFrame(sub)
    /\ d_args' = [NoDenseArgs EXCEPT !.sub = sub, !.columns = cols]
    /\ d_op' = "read_slice"
    /\ UNCHANGED <<d_sparse, d_dims, d_rows, d_hist>>
    /\ UNCHANGED notDense

\* DenseCellArrayFrame.__getitem__ with a tuple key
DenseGetItemTuple(key, cols) ==
    /\ ArrayJustWritten
    /\ ~d_sparse
    /\ d_res' = DenseGetItemTupleResult(d_dims, d_rows, key, cols)
    /\ d_engine' = DenseEngineSubset(NoCond, key)
    /\ d_args' = [NoDenseArgs EXCEPT !.sub = key, !.colsel = cols]
    /\ d_op' = "dense_tuple"
    /\ UNCHANGED <<d_sparse, d_dims, d_rows, d_hist>>
    /\ UNCHANGED notDense

\* DenseCellArrayFrame.__getitem__ with a string key
DenseGetItemStr(key) ==
    /\ ArrayJustWritten
    /\ ~d_sparse
    /\ d_res' = DenseGetItemStrResult(d_dims, d_rows, key)
    /\ d_engine' = Slice(FALSE, 0, FALSE, 0)
    /\ d_args' = [NoDenseArgs EXCEPT !.key = key]
    /\ d_op' = "dense_str"
    /\ UNCHANGED <<d_sparse, d_dims, d_rows, d_hist>>
    /\ UNCHANGED notDense

\* CellArrayBaseFrame.__getitem__ with a tuple key, on a CellArrayFrame
FrameGetItemTuple(key, cols) ==
    /\ ArrayJustWritten
    /\ d_res' = FrameGetItemTupleResult(d_sparse, d_rows, key, cols)
    /\ d_engine' = AdjustFrame(key)
    /\ d_args' = [NoDenseArgs EXCEPT !.sub = key, !.colsel = cols]
    /\ d_op' = "frame_tuple"
    /\ UNCHANGED <<d_sparse, d_dims, d_rows, d_hist>>
    /\ UNCHANGED notDense

\* CellArrayBaseFrame.__getitem__ with a string key, on a CellArrayFrame
FrameGetItemStr(key) ==
    /\ ArrayJustWritten
    /\ d_res' = FrameGetItemStrResult(d_sparse, d_rows, key)
    /\ d_engine' = Slice(FALSE, 0, FALSE, 0)
    /\ d_args' = [NoDenseArgs EXCEPT !.key = key]
    /\ d_op' = "frame_str"
    /\ UNCHANGED <<d_sparse, d_dims, d_rows, d_hist>>
    /\ UNCHANGED notDense

\* DenseCellArrayFrame.append_dataframe(df, row_offset)
AppendDataframe(df, given, offset) ==
    /\ AdapterIdle
    /\ ~d_sparse
    /\ AppendOffset(d_rows, given, offset) + Len(df) - 1 <= DomMax
    /\ d_rows' = EngineAppend(d_rows, df, AppendOffset(d_rows, given, offset))
    /\ d_op' = "append"
    /\ d_res' = NoFrame
    /\ d_args' = NoDenseArgs
    /\ d_hist' = HistAfter(d_hist, df, given)
    /\ d_engine' = NoSubset
    /\ UNCHANGED <<d_sparse, d_dims>>
    /\ UNCHANGED notDense

\* a write_dataframe that leaves row_offset out
WriteArgsDefault == [given |-> FALSE, offset |-> 0]

\* row_offset=0 of write_dataframe
WriteArgs == [given |-> TRUE, offset |-> 0]

\* DenseCellArrayFrame.write_dataframe(df): append_dataframe(df, row_offset=0)
DenseWriteDataframe(df) ==
    /\ AdapterIdle
    /\ ~d_sparse
    /\ AppendOffset(d_rows, WriteArgs.given, WriteArgs.offset) + Len(df) - 1 <= DomMax
    /\ d_rows' = EngineAppend(d_rows, df, AppendOffset(d_rows, WriteArgs.given, WriteArgs.offset))
    /\ d_op' = "write"
    /\ d_res' = NoFrame
    /\ d_args' = NoDenseArgs
    /\ d_hist' = [HistAfter(d_hist, df, WriteArgs.given) EXCEPT
                      !.kept = \A j \in 1..Len(df) : (j - 1) \in DOMAIN d_rows /\ d_rows[j - 1] = df[j]]
    /\ d_engine' = NoSubset
    /\ UNCHANGED <<d_sparse, d_dims>>
    /\ UNCHANGED notDense

\* a shape: (rows, columns)
ShapeOf(r, c) == [tag |-> "shape", idx |-> <<r, c>>, cols |-> <<>>, cell |-> <<>>]

\* the row count of CellArrayBaseFrame.shape on a dense array: the extent of
\* the declared domain
DenseShapeDeclared(rows) == ShapeOf(DomMax + 1, Len(AttrNames))

\* DenseCellArrayFrame.shape: (non_empty[0][1] + 1, len(self.columns)), and
\* (0, len(self.columns)) without a non-empty domain
DenseShape(rows) ==
    IF NonEmptyDomain(rows) = <<>> THEN ShapeOf(0, Len(AttrNames))
    ELSE ShapeOf(NonEmptyDomain(rows)[2] + 1, Len(AttrNames))

\* ddf.shape
DenseGetShape ==
    /\ AdapterIdle
    /\ ~d_sparse
    /\ d_res' = DenseShape(d_rows)
    /\ d_op' = "shape"
    /\ d_args' = NoDenseArgs
    /\ d_engine' = NoSubset
    /\ UNCHANGED <<d_sparse, d_dims, d_rows, d_hist>>
    /\ UNCHANGED notDense

----------------------------------------------------------------------------
(* Base adapter: the array at the uri, the caller's array, the adapter *)

MaxCoord == 2

Coords == 0..MaxCoord

Modes == {"r", "w"}

\* a schema: sparse or dense, the type and the declared domain of the first
\* dimension, the number of dimensions and of attributes.  A coordinate c of
\* a "float" dimension stands for c / 2, one of a "str" dimension for a label.
Schema(sp, ty, nd, lo, na) ==
    [sparse |-> sp, dtype |-> ty, ndim |-> nd, dmin |-> lo, dmax |-> MaxCoord, nattr |-> na]

\* dense arrays have integer dimensions
Schemas ==
    {Schema(TRUE, ty, 1, 0, na) : ty \in {"int", "float", "str"}, na \in {1, 2}}
    \cup {Schema(FALSE, "int", nd, lo, na) : nd \in {1, 2}, lo \in {0, 1}, na \in {1, 2}}

\* the array of test_frame.py: sparse, integer row_id
FrameSchema == Schema(TRUE, "int", 1, 0, 2)

NoRet == [op |-> None, exc |-> None, rows |-> 0, ncols |-> 0, coords |-> {}]

Ret(op) == [NoRet EXCEPT !.op = op]

Raised(op, exc) == [NoRet EXCEPT !.op = op, !.exc = exc]

NoCall ==
    [op |-> None, cols |-> FALSE, mode |-> None, useUri |-> FALSE, useExt |-> FALSE,
     validate |-> FALSE, cfg |-> None, sparse |-> FALSE, df |-> FALSE]

NoScope == [stale |-> FALSE, reopens |-> 0, yielded |-> None, body |-> FALSE]

\* self._column_names = self._index_names = self._shape = self._index = None
EmptyCache ==
    [column_names |-> FALSE, index_names |-> FALSE,
     shape |-> [has |-> FALSE, rows |-> 0, ncols |-> 0],
     index |-> [has |-> FALSE, coords |-> {}]]

NoAdapter == [state |-> "new", passed |-> FALSE, mode |-> None]

Frame(op, ph, own) == [op |-> op, ph |-> ph, own |-> own]

Top(stack) == stack[Len(stack)]

SetTop(stack, fr) == [stack EXCEPT ![Len(stack)] = fr]

Pop(stack) == SubSeq(stack, 1, Len(stack) - 1)

----------------------------------------------------------------------------
(* Construction: CellArrayBaseFrame.__init__ and create_cellarr_frame *)

\* an __init__ that takes the caller's array whatever its mode
CtorOutcomeNoModeCheck(useUri, useExt, ext, mode, cfg) ==
    IF useExt THEN IF ~ext.isopen THEN "ValueError" ELSE "ok"
    ELSE IF useUri THEN IF cfg = "bad" THEN "TypeError" ELSE "ok"
    ELSE "ValueError"

\* what the checks of __init__ end in, before any validation
CtorOutcome(useUri, useExt, ext, mode, cfg) ==
    IF useExt
    THEN IF ~ext.isopen THEN "ValueError"
         ELSE IF mode # None /\ ext.mode # mode THEN "ValueError"
         ELSE "ok"
    ELSE IF useUri THEN IF cfg = "bad" THEN "TypeError" ELSE "ok"
    ELSE "ValueError"

\* the adapter __init__ leaves: validation is still to run when asked
Constructed(useExt, ext, mode, validate) ==
    [state |-> IF validate THEN "validating" ELSE "ready",
     passed |-> useExt,
     mode |-> IF useExt THEN ext.mode ELSE mode]

\* the calls __init__ leaves in progress: _validate when asked
CtorStack(validate) == IF validate THEN <<Frame("validate", "enter", FALSE)>> ELSE <<>>

Construct(useUri, useExt, mode, validate, cfg) ==
    /\ b_ad.state = "new"
    /\ useExt => b_exists
    /\ b_call' = [NoCall EXCEPT !.op = "construct", !.mode = mode, !.useUri = useUri,
                                !.useExt = useExt, !.validate = validate, !.cfg = cfg]
    /\ b_opens' = 0
    /\ b_scope' = NoScope
    /\ LET out == CtorOutcome(useUri, useExt, b_ext, mode, cfg)
       IN  IF out # "ok"
           THEN /\ b_ad' = [NoAdapter EXCEPT !.state = "failed"]
                /\ b_ret' = Raised("construct", out)
                /\ b_stack' = <<>>
           ELSE /\ b_ad' = Constructed(useExt, b_ext, mode, validate)
                /\ b_ret' = IF validate THEN NoRet ELSE Ret("construct")
                /\ b_stack' = CtorStack(validate)
    /\ UNCHANGED <<b_kind, b_coords, b_exists, b_ext, b_cache, b_handles, b_creates>>
    /\ UNCHANGED notBase

\* create_cellarr_frame: a dense frame needs a dataframe
CreateOutcome(sparse, df) == IF ~sparse /\ ~df THEN "ValueError" ELSE "ok"

\* the schema create_cellarr_frame creates
CreatedSchema(sparse) ==
    IF sparse THEN Schema(TRUE, "int", 2, 0, 1) ELSE Schema(FALSE, "int", 1, 0, 2)

\* create_cellarr_frame(uri, sparse, df) on a uri that holds no array: the
\* array is created and an adapter is built on it (the write of df is the
\* adapter's write_dataframe / from_pandas)
CreateCellarrFrame(sparse, df) ==
    /\ b_ad.state = "new"
    /\ ~b_exists
    /\ b_call' = [NoCall EXCEPT !.op = "create", !.sparse = sparse, !.df = df]
    /\ b_opens' = 0
    /\ b_scope' = NoScope
    /\ IF CreateOutcome(sparse, df) # "ok"
       THEN /\ b_ad' = [NoAdapter EXCEPT !.state = "failed"]
            /\ b_ret' = Raised("create", CreateOutcome(sparse, df))
            /\ b_stack' = <<>>
            /\ UNCHANGED <<b_kind, b_coords, b_exists, b_creates>>
       ELSE /\ b_ad' = Constructed(FALSE, b_ext, None, TRUE)
            /\ b_ret' = NoRet
            /\ b_stack' = CtorStack(TRUE)
            /\ b_kind' = CreatedSchema(sparse)
            /\ b_coords' = IF df THEN {0, 1} ELSE {}
            /\ b_exists' = TRUE
            /\ b_creates' = b_creates + 1
    /\ UNCHANGED <<b_ext, b_cache, b_handles>>
    /\ UNCHANGED notBase

----------------------------------------------------------------------------
(* open_array: the scope every operation of the base adapter runs in *)

\* the operations that run their body inside one open_array scope
Accessors == {"column_names", "index_names", "index", "shape"}

Reads == {"read_slice", "read_query"}

\* mode if mode is not None else (self.mode or "r")
EffectiveMode(mode, own) ==
    IF mode # None THEN mode ELSE IF own # None THEN own ELSE "r"

\* operations that leave the mode to open_array
RequestedModeNone(op, call) == IF op = "scope" THEN call.mode ELSE None

\* the mode an operation asks open_array for: the caller's own with-block
\* passes what the caller chose, every operation of the adapter passes "r"
RequestedMode(op, call) == IF op = "scope" THEN call.mode ELSE "r"

\* an entry on the caller's array that yields it even when the reopen failed
ExtEnterNoRaise(isopen, ok) ==
    [raise |-> FALSE, isopen |-> isopen \/ ok, reopens |-> IF isopen THEN 0 ELSE 1]

\* entry on the caller's array: reopen it when found closed, ok telling
\* whether the engine's reopen succeeds
ExtEnter(isopen, ok) ==
    [raise |-> ~isopen /\ ~ok, isopen |-> isopen \/ ok, reopens |-> IF isopen THEN 0 ELSE 1]

\* an exit that closes the caller's array like one of the adapter's own
ExtAfterScopeClosed(ext) == [ext EXCEPT !.isopen = FALSE]

\* the exit of a scope on the caller's array: a bare yield, nothing is closed
ExtAfterScope(ext) == ext

\* the own scopes of the calls in progress that hold a handle
OwnScopes(stack) == {i \in DOMAIN stack : stack[i].own}

\* an exception that leaves the handles of the scopes it crosses open
UnwindHandlesLeak(handles, stack) == handles

\* an exception crosses every scope in progress: each finally closes its handle
UnwindHandles(handles, stack) ==
    SubSeq(handles, 1, Len(handles) - Cardinality(OwnScopes(stack)))

\* finally: array.close() on normal exit of an own scope
ExitHandles(handles, own) ==
    IF own THEN SubSeq(handles, 1, Len(handles) - 1) ELSE handles

\* the adapter after its outermost call ended: a construction that raised
\* leaves no adapter, one that returned leaves it ready
AdapterAfter(ad, call, raised) ==
    IF call.op \in {"construct", "create"}
    THEN IF raised THEN [NoAdapter EXCEPT !.state = "failed"] ELSE [ad EXCEPT !.state = "ready"]
    ELSE ad

\* an exception exc leaves every call in progress
Unwind(exc) ==
    /\ b_stack' = <<>>
    /\ b_handles' = UnwindHandles(b_handles, b_stack)
    /\ b_ret' = Raised(b_call.op, exc)
    /\ b_ad' = AdapterAfter(b_ad, b_call, TRUE)

\* a cached value is returned as it is
Cached(cache, op) ==
    CASE op = "column_names" -> cache.column_names
      [] op = "index_names" -> cache.index_names
      [] op = "index" -> cache.index.has
      [] op = "shape" -> cache.shape.has
      [] OTHER -> FALSE

\* what an operation returns, the accessors from the cache they have filled
ReturnValue(op, cache, kind) ==
    CASE op = "shape" -> [Ret(op) EXCEPT !.rows = cache.shape.rows, !.ncols = cache.shape.ncols]
      [] op = "index" -> [Ret(op) EXCEPT !.coords = cache.index.coords]
      [] op = "column_names" -> [Ret(op) EXCEPT !.ncols = kind.nattr]
      [] op = "index_names" -> [Ret(op) EXCEPT !.ncols = kind.ndim]
      [] OTHER -> Ret(op)

\* the caller starts an operation on a ready adapter
Call(op, cols, mode) ==
    /\ b_ad.state = "ready"
    /\ b_stack = <<>>
    /\ b_call' = [NoCall EXCEPT !.op = op, !.cols = cols, !.mode = mode]
    /\ b_opens' = 0
    /\ b_scope' = NoScope
    /\ IF Cached(b_cache, op)
       THEN /\ b_ret' = ReturnValue(op, b_cache, b_kind)
            /\ b_stack' = <<>>
       ELSE /\ b_ret' = NoRet
            /\ b_stack' = <<Frame(op, "enter", FALSE)>>
    /\ UNCHANGED <<b_kind, b_coords, b_exists, b_ext, b_ad, b_cache, b_handles, b_creates>>
    /\ UNCHANGED notBase

\* open_array up to its yield
EnterScope(ok) ==
    /\ b_stack # <<>>
    /\ Top(b_stack).ph = "enter"
    /\ IF b_ad.passed
       THEN LET e == ExtEnter(b_ext.isopen, ok)
            IN  /\ b_ext' = [b_ext EXCEPT !.isopen = e.isopen]
                /\ b_opens' = b_opens + e.reopens
                /\ b_scope' = [stale |-> ~b_ext.isopen, reopens |-> e.reopens,
                               yielded |-> IF e.raise THEN None ELSE "ext", body |-> FALSE]
                /\ IF e.raise
                   THEN Unwind("TileDBError")
                   ELSE /\ b_stack' = SetTop(b_stack, Frame(Top(b_stack).op, "body", FALSE))
                        /\ UNCHANGED <<b_handles, b_ret, b_ad>>
       ELSE /\ ok = b_exists
            /\ b_opens' = b_opens + 1
            /\ b_scope' = [stale |-> FALSE, reopens |-> 0,
                           yielded |-> IF ok THEN "own" ELSE None, body |-> FALSE]
            /\ IF ~ok
               THEN Unwind("TileDBError")
               ELSE /\ b_stack' = SetTop(b_stack, Frame(Top(b_stack).op, "body", TRUE))
                    /\ b_handles' = Append(b_handles,
                                       EffectiveMode(RequestedMode(Top(b_stack).op, b_call), b_ad.mode))
                    /\ UNCHANGED <<b_ret, b_ad>>
            /\ UNCHANGED b_ext
    /\ UNCHANGED <<b_kind, b_coords, b_exists, b_cache, b_call, b_creates>>
    /\ UNCHANGED notBase

----------------------------------------------------------------------------
(* Metadata accessors and the operations of CellArrayFrame *)

\* A.nonempty_domain()[0]: the bounds of the coordinates that hold data, and
\* none at all for an array without data.  (What the engine reports for an
\* array with string dimensions and no data is left out: the arrays of the
\* model with a string dimension hold data.)
NoDomain == [has |-> FALSE, min |-> 0, max |-> 0]

\* a non-empty domain that reports the lowest coordinate alone
NonEmptyDomainLowest(coords) ==
    IF coords = {} THEN NoDomain ELSE [has |-> TRUE, min |-> Min(coords), max |-> Min(coords)]

\* ned[0] of A.nonempty_domain()
NonEmptyDomain0(coords) ==
    IF coords = {} THEN NoDomain ELSE [has |-> TRUE, min |-> Min(coords), max |-> Max(coords)]

\* int(x) of a bound of a dimension of type ty: coordinates of a float
\* dimension are counted in halves
IntOf(ty, c) == IF ty = "float" THEN c \div 2 ELSE c

\* a row count of a sparse array taken from the declared domain
ShapeRowsDeclared(kind, coords) ==
    IF kind.dtype # "str" THEN kind.dmax - kind.dmin + 1 ELSE -1

\* the rows of shape
ShapeRows(kind, coords) ==
    IF kind.sparse
    THEN LET ned == NonEmptyDomain0(coords)
         IN  IF ~ned.has THEN 0
             ELSE IF kind.dtype \in {"int", "float"}
                  THEN IntOf(kind.dtype, ned.max) - IntOf(kind.dtype, ned.min) + 1
                  ELSE -1
    ELSE IF kind.ndim = 1
         THEN IF kind.dtype # "str" THEN kind.dmax - kind.dmin + 1 ELSE -1
         ELSE kind.dmax - kind.dmin + 1

\* self._shape = (rows, A.schema.nattr)
ComputeShape(kind, coords) ==
    [has |-> TRUE, rows |-> ShapeRows(kind, coords), ncols |-> kind.nattr]

\* self._index: the coordinates of a sparse array, an empty frame for a dense one
ComputeIndex(kind, coords) ==
    [has |-> TRUE, coords |-> IF kind.sparse THEN coords ELSE {}]

\* the body of the scope of the innermost call runs to its end, or up to the
\* call of column_names a read without columns makes inside its scope
Body ==
    /\ b_stack # <<>>
    /\ Top(b_stack).ph = "body"
    /\ b_scope' = [b_scope EXCEPT !.body = TRUE]
    /\ LET op == Top(b_stack).op
           done == SetTop(b_stack, [Top(b_stack) EXCEPT !.ph = "exit"])
       IN  CASE op = "column_names" ->
                  /\ b_cache' = [b_cache EXCEPT !.column_names = TRUE]
                  /\ b_stack' = done
             [] op = "index_names" ->
                  /\ b_cache' = [b_cache EXCEPT !.index_names = TRUE]
                  /\ b_stack' = done
             [] op = "index" ->
                  /\ b_cache' = [b_cache EXCEPT !.index = ComputeIndex(b_kind, b_coords)]
                  /\ b_stack' = done
             [] op = "shape" ->
                  /\ b_cache' = [b_cache EXCEPT !.shape = ComputeShape(b_kind, b_coords)]
                  /\ b_stack' = done
             [] op \in Reads ->
                  /\ b_stack' = IF ~b_call.cols /\ ~b_cache.column_names
                                THEN Append(b_stack, Frame("column_names", "enter", FALSE))
                                ELSE done
                  /\ UNCHANGED b_cache
             [] OTHER ->
                  /\ b_stack' = done
                  /\ UNCHANGED b_cache
    /\ UNCHANGED <<b_kind, b_coords, b_exists, b_ext, b_ad, b_handles, b_call, b_ret,
                   b_opens, b_creates>>
    /\ UNCHANGED notBase

\* the engine call (or the caller's own code) in the body of a scope raises
BodyRaise ==
    /\ b_stack # <<>>
    /\ Top(b_stack).ph = "body"
    /\ Top(b_stack).op \in Reads \cup {"shape", "scope"}
    /\ b_scope' = [b_scope EXCEPT !.body = TRUE]
    /\ Unwind("EngineError")
    /\ UNCHANGED <<b_kind, b_coords, b_exists, b_ext, b_cache, b_call, b_opens, b_creates>>
    /\ UNCHANGED notBase

\* index: the query of the coordinates raises, an empty index is cached
IndexQueryFails ==
    /\ b_stack # <<>>
    /\ Top(b_stack).ph = "body"
    /\ Top(b_stack).op = "index"
    /\ b_kind.sparse
    /\ b_scope' = [b_scope EXCEPT !.body = TRUE]
    /\ b_cache' = [b_cache EXCEPT !.index = ComputeIndex(b_kind, {})]
    /\ b_stack' = SetTop(b_stack, [Top(b_stack) EXCEPT !.ph = "exit"])
    /\ UNCHANGED <<b_kind, b_coords, b_exists, b_ext, b_ad, b_handles, b_call, b_ret,
                   b_opens, b_creates>>
    /\ UNCHANGED notBase

\* the scope of the innermost call exits normally and the call returns
ExitScope ==
    /\ b_stack # <<>>
    /\ Top(b_stack).ph = "exit"
    /\ b_handles' = ExitHandles(b_handles, Top(b_stack).own)
    /\ b_ext' = IF Top(b_stack).own THEN b_ext ELSE ExtAfterScope(b_ext)
    /\ b_stack' = Pop(b_stack)
    /\ IF Len(b_stack) = 1
       THEN /\ b_ret' = ReturnValue(b_call.op, b_cache, b_kind)
            /\ b_ad' = AdapterAfter(b_ad, b_call, FALSE)
       ELSE UNCHANGED <<b_ret, b_ad>>
    /\ UNCHANGED <<b_kind, b_coords, b_exists, b_cache, b_call, b_scope, b_opens, b_creates>>
    /\ UNCHANGED notBase

\* the caller closes its own array between two operations of the adapter
ExtClose ==
    /\ b_ad.state = "ready"
    /\ b_ad.passed
    /\ b_stack = <<>>
    /\ b_ext.isopen
    /\ b_ext' = [b_ext EXCEPT !.isopen = FALSE]
    /\ b_call' = [NoCall EXCEPT !.op = "ext_close"]
    /\ b_ret' = NoRet
    /\ UNCHANGED <<b_kind, b_coords, b_exists, b_ad, b_cache, b_stack, b_handles, b_scope,
                   b_opens, b_creates>>
    /\ UNCHANGED notBase

\* a write_batch that drops what the adapter has cached
CacheAfterWriteCleared(cache) == EmptyCache

\* write_batch hands the data to the engine and touches no field of the adapter
CacheAfterWrite(cache) == cache

\* the coordinates a batch can hold in an array of this schema
BatchCoords(kind) == {c \in Coords : c >= kind.dmin}

\* write_batch(data): tiledb.from_pandas on the uri
WriteBatch(data) ==
    /\ b_ad.state = "ready"
    /\ b_stack = <<>>
    /\ data # {}
    /\ data \subseteq BatchCoords(b_kind)
    /\ b_coords' = b_coords \cup data
    /\ b_cache' = CacheAfterWrite(b_cache)
    /\ b_call' = [NoCall EXCEPT !.op = "write_batch"]
    /\ b_ret' = Ret("write_batch")
    /\ b_scope' = NoScope
    /\ b_opens' = 0
    /\ UNCHANGED <<b_kind, b_exists, b_ext, b_ad, b_stack, b_handles, b_creates>>
    /\ UNCHANGED notBase

----------------------------------------------------------------------------
(* Specifications *)

SparseInit ==
    /\ sp_store = <<>>
    /\ sp_df = NoFrame
    /\ sp_args = NoArgs
    /\ sp_fetch = <<>>
    /\ sp_res = NoFrame
    /\ sp_op = "init"
    /\ sp_wopens = 0
    /\ sp_cwrites = 0
    /\ sp_fresh = FALSE
    /\ sp_nw = 0
    \* the other adapters are not in use
    /\ d_sparse = FALSE
    /\ d_dims = DimNames
    /\ d_rows = <<>>
    /\ d_op = "off"
    /\ d_args = NoDenseArgs
    /\ d_engine = NoSubset
    /\ d_res = NoFrame
    /\ d_hist = NoHist
    /\ lb_df = NoFrame
    /\ lb_store = <<>>
    /\ lb_res = NoFrame
    /\ lb_op = "off"
    /\ b_kind = FrameSchema
    /\ b_coords = {}
    /\ b_exists = FALSE
    /\ b_ext = [isopen |-> FALSE, mode |-> "r"]
    /\ b_ad = [NoAdapter EXCEPT !.state = "off"]
    /\ b_cache = EmptyCache
    /\ b_stack = <<>>
    /\ b_handles = <<>>
    /\ b_call = NoCall
    /\ b_ret = NoRet
    /\ b_scope = NoScope
    /\ b_opens = 0
    /\ b_creates = 0

SparseNext ==
    \/ \E df \in Frames : WriteDataframe(df)
    \/ \E subset \in RowSubsets, columns \in ColumnLists, query \in Queries :
          ReadDataframe(subset, columns, query)

SpecSparse == SparseInit /\ [][SparseNext]_vars

\* the array after from_dataframe(uri, df) / tiledb.from_pandas(uri, df): the
\* rows of df at 0 .. len(df) - 1, none for a frame without rows
DenseInit ==
    /\ d_sparse \in BOOLEAN
    /\ d_dims = DimNames
    /\ \E df \in DenseFrames \cup {<<>>} : d_rows = [i \in 0..(Len(df) - 1) |-> df[i + 1]]
    /\ d_op = "create"
    /\ d_args = NoDenseArgs
    /\ d_engine = NoSubset
    /\ d_res = NoFrame
    /\ d_hist = [NoHist EXCEPT !.pure = (DOMAIN d_rows = {})]
    /\ lb_df = NoFrame
    /\ lb_store = <<>>
    /\ lb_res = NoFrame
    /\ lb_op = "off"
    \* the other adapters are not in use
    /\ sp_store = <<>>
    /\ sp_df = NoFrame
    /\ sp_args = NoArgs
    /\ sp_fetch = <<>>
    /\ sp_res = NoFrame
    /\ sp_op = "off"
    /\ sp_wopens = 0
    /\ sp_cwrites = 0
    /\ sp_fresh = FALSE
    /\ sp_nw = 0
    /\ b_kind = FrameSchema
    /\ b_coords = {}
    /\ b_exists = FALSE
    /\ b_ext = [isopen |-> FALSE, mode |-> "r"]
    /\ b_ad = [NoAdapter EXCEPT !.state = "off"]
    /\ b_cache = EmptyCache
    /\ b_stack = <<>>
    /\ b_handles = <<>>
    /\ b_call = NoCall
    /\ b_ret = NoRet
    /\ b_scope = NoScope
    /\ b_opens = 0
    /\ b_creates = 0

DenseNext ==
    \/ \E columns \in DenseColumnLists, cond \in Conds, pk \in PkNames :
            DenseReadDataframe(columns, cond, NoSubset, pk)
    \/ \E columns \in DenseColumnLists, sub \in Subsets \cup {NoSubset} :
            DenseReadDataframe(columns, NoCond, sub, None)
    \/ \E key \in Subsets : DenseGetItem(key)
    \/ \E key \in TupleRows, cols \in ColSels : DenseGetItemTuple(key, cols)
    \/ \E key \in StrKeys : DenseGetItemStr(key)
    \/ \E key \in TupleRows, cols \in ColSels \ {ColRange(0, 0)} : FrameGetItemTuple(key, cols)
    \/ \E key \in StrKeys : FrameGetItemStr(key)
    \/ \E sub \in Subsets, cols \in DenseColumnLists : FrameReadSlice(sub, cols)
    \/ \E df \in DenseFrames, given \in BOOLEAN, offset \in DenseDomain :
            AppendDataframe(df, given, offset)

SpecDense == DenseInit /\ [][DenseNext]_vars

\* before an adapter is built: an array may exist at the uri, and the caller
\* may hold it open in either mode or have closed it
BaseInit ==
    /\ b_kind = FrameSchema
    /\ b_exists \in BOOLEAN
    /\ b_coords = IF b_exists THEN {0, 1} ELSE {}
    /\ b_ext \in [isopen : BOOLEAN, mode : Modes]
    /\ ~b_exists => ~b_ext.isopen
    /\ b_ad = NoAdapter
    /\ b_cache = EmptyCache
    /\ b_stack = <<>>
    /\ b_handles = <<>>
    /\ b_call = NoCall
    /\ b_ret = NoRet
    /\ b_scope = NoScope
    /\ b_opens = 0
    /\ b_creates = 0
    \* the other adapters are not in use
    /\ sp_store = <<>>
    /\ sp_df = NoFrame
    /\ sp_args = NoArgs
    /\ sp_fetch = <<>>
    /\ sp_res = NoFrame
    /\ sp_op = "off"
    /\ sp_wopens = 0
    /\ sp_cwrites = 0
    /\ sp_fresh = FALSE
    /\ sp_nw = 0
    /\ d_sparse = FALSE
    /\ d_dims = DimNames
    /\ d_rows = <<>>
    /\ d_op = "off"
    /\ d_args = NoDenseArgs
    /\ d_engine = NoSubset
    /\ d_res = NoFrame
    /\ d_hist = NoHist
    /\ lb_df = NoFrame
    /\ lb_store = <<>>
    /\ lb_res = NoFrame
    /\ lb_op = "off"

BaseNext ==
    \/ \E useUri \in BOOLEAN, useExt \in BOOLEAN, mode \in Modes \cup {None},
          validate \in BOOLEAN, cfg \in {None, "ctx", "bad"} :
          Construct(useUri, useExt, mode, validate, cfg)
    \/ \E sparse \in BOOLEAN, df \in BOOLEAN : CreateCellarrFrame(sparse, df)
    \/ \E op \in Accessors : Call(op, FALSE, None)
    \/ \E op \in Reads, cols \in BOOLEAN : Call(op, cols, None)
    \/ \E mode \in Modes \cup {None} : Call("scope", FALSE, mode)
    \/ \E ok \in BOOLEAN : EnterScope(ok)
    \/ Body
    \/ BodyRaise
    \/ IndexQueryFails
    \/ ExitScope
    \/ ExtClose

\* construction, scopes and handles of the base adapter
SpecBase == BaseInit /\ [][BaseNext]_vars

\* the coordinates an array of a schema can hold at the start; an array with
\* a string dimension holds data
InitCoords(kind) ==
    {c \in SUBSET BatchCoords(kind) : kind.dtype = "str" => c # {}}

\* after CellArrayFrame(uri=uri) on an array of any schema
MetaInit ==
    /\ b_kind \in Schemas
    /\ b_coords \in InitCoords(b_kind)
    /\ b_exists = TRUE
    /\ b_ext = [isopen |-> FALSE, mode |-> "r"]
    /\ b_ad = [state |-> "ready", passed |-> FALSE, mode |-> None]
    /\ b_cache = EmptyCache
    /\ b_stack = <<>>
    /\ b_handles = <<>>
    /\ b_call = NoCall
    /\ b_ret = NoRet
    /\ b_scope = NoScope
    /\ b_opens = 0
    /\ b_creates = 0
    \* the other adapters are not in use
    /\ sp_store = <<>>
    /\ sp_df = NoFrame
    /\ sp_args = NoArgs
    /\ sp_fetch = <<>>
    /\ sp_res = NoFrame
    /\ sp_op = "off"
    /\ sp_wopens = 0
    /\ sp_cwrites = 0
    /\ sp_fresh = FALSE
    /\ sp_nw = 0
    /\ d_sparse = FALSE
    /\ d_dims = DimNames
    /\ d_rows = <<>>
    /\ d_op = "off"
    /\ d_args = NoDenseArgs
    /\ d_engine = NoSubset
    /\ d_res = NoFrame
    /\ d_hist = NoHist
    /\ lb_df = NoFrame
    /\ lb_store = <<>>
    /\ lb_res = NoFrame
    /\ lb_op = "off"

MetaNext ==
    \/ \E op \in Accessors : Call(op, FALSE, None)
    \/ \E ok \in BOOLEAN : EnterScope(ok)
    \/ Body
    \/ BodyRaise
    \/ IndexQueryFails
    \/ ExitScope
    \/ \E data \in SUBSET Coords : WriteBatch(data)

\* the cached metadata of an adapter of a uri, under writes
SpecMeta == MetaInit /\ [][MetaNext]_vars

\* a sparse array just created with the dimension types of a frame, and that
\* frame
LabelInit ==
    /\ lb_df \in LabelledFrames
    /\ lb_store = <<>>
    /\ lb_res = NoFrame
    /\ lb_op = "create"
    \* the other adapters are not in use
    /\ sp_store = <<>>
    /\ sp_df = NoFrame
    /\ sp_args = NoArgs
    /\ sp_fetch = <<>>
    /\ sp_res = NoFrame
    /\ sp_op = "off"
    /\ sp_wopens = 0
    /\ sp_cwrites = 0
    /\ sp_fresh = FALSE
    /\ sp_nw = 0
    /\ d_sparse = FALSE
    /\ d_dims = DimNames
    /\ d_rows = <<>>
    /\ d_op = "off"
    /\ d_args = NoDenseArgs
    /\ d_engine = NoSubset
    /\ d_res = NoFrame
    /\ d_hist = NoHist
    /\ b_kind = FrameSchema
    /\ b_coords = {}
    /\ b_exists = FALSE
    /\ b_ext = [isopen |-> FALSE, mode |-> "r"]
    /\ b_ad = NoAdapter
    /\ b_cache = EmptyCache
    /\ b_stack = <<>>
    /\ b_handles = <<>>
    /\ b_call = NoCall
    /\ b_ret = NoRet
    /\ b_scope = NoScope
    /\ b_opens = 0
    /\ b_creates = 0

LabelNext ==
    \/ LabelledWrite(lb_df)
    \/ LabelledReadDataframe

\* write_dataframe then read_dataframe on axes of integer or string labels
SpecLabel == LabelInit /\ [][LabelNext]_vars

\* the writes of a dense adapter, the shape between them, and a read of
\* every row after them
WriteNext ==
    \/ \E df \in DenseFrames, given \in BOOLEAN, offset \in DenseDomain :
            AppendDataframe(df, given, offset)
    \/ \E df \in DenseFrames : DenseWriteDataframe(df)
    \/ DenseGetShape
    \/ DenseGetItem(Slice(FALSE, 0, FALSE, 0))

\* a dense array after from_dataframe(uri, df)
WriteInit ==
    /\ d_sparse = FALSE
    /\ d_dims = DimNames
    /\ \E df \in DenseFrames \cup {<<>>} : d_rows = [i \in 0..(Len(df) - 1) |-> df[i + 1]]
    /\ d_op = "create"
    /\ d_args = NoDenseArgs
    /\ d_engine = NoSubset
    /\ d_res = NoFrame
    /\ d_hist = [NoHist EXCEPT !.pure = (DOMAIN d_rows = {})]
    /\ lb_df = NoFrame
    /\ lb_store = <<>>
    /\ lb_res = NoFrame
    /\ lb_op = "off"
    \* the other adapters are not in use
    /\ sp_store = <<>>
    /\ sp_df = NoFrame
    /\ sp_args = NoArgs
    /\ sp_fetch = <<>>
    /\ sp_res = NoFrame
    /\ sp_op = "off"
    /\ sp_wopens = 0
    /\ sp_cwrites = 0
    /\ sp_fresh = FALSE
    /\ sp_nw = 0
    /\ b_kind = FrameSchema
    /\ b_coords = {}
    /\ b_exists = FALSE
    /\ b_ext = [isopen |-> FALSE, mode |-> "r"]
    /\ b_ad = [NoAdapter EXCEPT !.state = "off"]
    /\ b_cache = EmptyCache
    /\ b_stack = <<>>
    /\ b_handles = <<>>
    /\ b_call = NoCall
    /\ b_ret = NoRet
    /\ b_scope = NoScope
    /\ b_opens = 0
    /\ b_creates = 0

SpecWrite == WriteInit /\ [][WriteNext]_vars

\* the rows a dense array may hold when an adapter is built on it
WrittenArrays == UNION {[S -> DenseRowValues] : S \in SUBSET DenseDomain}

\* a dense adapter built on an array that exists, whatever its dimension is
\* named and whichever of its rows are written
KeyInit ==
    /\ d_sparse = FALSE
    /\ d_dims \in DimChoices
    /\ d_rows \in WrittenArrays
    /\ d_op = "create"
    /\ d_args = NoDenseArgs
    /\ d_engine = NoSubset
    /\ d_res = NoFrame
    /\ d_hist = NoHist
    /\ lb_df = NoFrame
    /\ lb_store = <<>>
    /\ lb_res = NoFrame
    /\ lb_op = "off"
    \* the other adapters are not in use
    /\ sp_store = <<>>
    /\ sp_df = NoFrame
    /\ sp_args = NoArgs
    /\ sp_fetch = <<>>
    /\ sp_res = NoFrame
    /\ sp_op = "off"
    /\ sp_wopens = 0
    /\ sp_cwrites = 0
    /\ sp_fresh = FALSE
    /\ sp_nw = 0
    /\ b_kind = FrameSchema
    /\ b_coords = {}
    /\ b_exists = FALSE
    /\ b_ext = [isopen |-> FALSE, mode |-> "r"]
    /\ b_ad = NoAdapter
    /\ b_cache = EmptyCache
    /\ b_stack = <<>>
    /\ b_handles = <<>>
    /\ b_call = NoCall
    /\ b_ret = NoRet
    /\ b_scope = NoScope
    /\ b_opens = 0
    /\ b_creates = 0

KeyNext ==
    \E columns \in DenseColumnLists, cond \in Conds, pk \in PkNames :
        DenseReadDataframe(columns, cond, NoSubset, pk)

\* read_dataframe(query=...) on dense arrays of either dimension name
SpecKey == KeyInit /\ [][KeyNext]_vars

----------------------------------------------------------------------------
(* Claims on the sparse adapter *)

\* two cells are equal up to the coercion of read_dataframe: both missing, or
\* both present with the same string form
SameCell(a, b) == (a.k = "nan") = (b.k = "nan") /\ (a.k # "nan" => ToStr(a) = ToStr(b))

AllMissing(df) == \A p \in DOMAIN df.cell : df.cell[p] = NaN

\* the row / column labels of df that hold at least one value
RowsWithValue(df) == {r \in Range(df.idx) : \E c \in Range(df.cols) : df.cell[<<r, c>>] # NaN}

ColsWithValue(df) == {c \in Range(df.cols) : \E r \in Range(df.idx) : df.cell[<<r, c>>] # NaN}

\* a read_dataframe() without arguments that follows one write_dataframe on
\* an empty array
RoundTripRead == sp_op = "read" /\ sp_fresh /\ sp_args = NoArgs

C4_EmptyWrite ==
    /\ [][(sp_op' = "write" /\ AllMissing(sp_df')) =>
             (sp_store' = sp_store /\ sp_wopens' = 0 /\ sp_cwrites' = 0)]_vars
    /\ []((sp_op = "read" /\ sp_fresh /\ AllMissing(sp_df)) =>
             (sp_res.tag = "frame" /\ Len(sp_res.idx) = 0))

\* an all-missing frame written to an array that holds records
C4_Witness ==
    /\ sp_op = "write"
    /\ AllMissing(sp_df)
    /\ DOMAIN sp_store # {}
    /\ sp_wopens = 0

----------------------------------------------------------------------------
(* Claims on the dense adapter *)

\* the last operation read rows start <= index < stop through a row slice
\* with 0 <= start < stop (an absent start standing for 0)
HalfOpenRead ==
    /\ d_op \in {"read_dataframe", "getitem", "read_slice"}
    /\ d_args.cond = NoCond
    /\ d_args.sub.kind = "slice"
    /\ d_args.sub.hasStop
    /\ IF d_args.sub.hasStart THEN 0 <= d_args.sub.start /\ d_args.sub.start < d_args.sub.stop
       ELSE 0 < d_args.sub.stop

SliceStart == IF d_args.sub.hasStart THEN d_args.sub.start ELSE 0

\* C2: a row slice start:stop with 0 <= start < stop reaches the engine as
\* the inclusive range [start, stop - 1], from the dense adapter and from
\* CellArrayFrame alike; the rows returned are those with
\* start <= index < stop, every written one of them, and never the row at stop.
C2_HalfOpenSlice ==
    HalfOpenRead =>
        /\ d_engine.kind = "slice"
        /\ d_engine.hasStart = d_args.sub.hasStart
        /\ d_engine.start = d_args.sub.start
        /\ d_engine.hasStop
        /\ d_engine.stop = d_args.sub.stop - 1
        /\ d_res.tag = "frame"
        /\ \A i \in Range(d_res.idx) : SliceStart <= i /\ i < d_args.sub.stop
        /\ \A i \in DOMAIN d_rows :
              (SliceStart <= i /\ i < d_args.sub.stop) => i \in Range(d_res.idx)

\* ddf[0:2] on an array with every row written returns rows 0 and 1
C2_Witness ==
    /\ HalfOpenRead
    /\ d_op = "getitem"
    /\ d_args.sub = Slice(TRUE, 0, TRUE, 2)
    /\ DOMAIN d_rows = DenseDomain
    /\ d_res.idx = <<0, 1>>

\* the attribute the fill filter is about: the primary key given when it is
\* an attribute, else the first column fetched
KeyAttribute ==
    IF d_args.pk \in Range(AttrNames) THEN d_args.pk
    ELSE IF d_args.columns # NoColumns THEN d_args.columns[1] ELSE AttrNames[1]

\* C3: no row returned by read_dataframe(query=...) has the fill sentinel in
\* its primary-key attribute (a string fill compared once decoded), with the
\* primary key given or auto-selected, with or without a columns list.
C3_FillFiltered ==
    (d_op = "read_dataframe" /\ d_args.cond # NoCond) =>
        /\ d_res.tag = "frame"
        /\ \A i \in Range(d_res.idx) :
              EngineCell(d_rows, i, KeyAttribute, d_args.cond) # FillCell(KeyAttribute)

\* a query true of the fill, on an array with an unwritten row below its
\* last written row, filtered on the string attribute: rows come back
C3_Witness ==
    /\ d_op = "read_dataframe"
    /\ d_args.cond.op = "<"
    /\ d_args.pk = "name"
    /\ \E i \in DenseDomain : i \notin DOMAIN d_rows /\ i < GetShapeRows(d_rows)
    /\ d_res.idx # <<>>

----------------------------------------------------------------------------
(* Claims on the base adapter *)

\* no step changes a metadata value the adapter has cached
CacheKept ==
    /\ b_cache.column_names => b_cache'.column_names
    /\ b_cache.index_names => b_cache'.index_names
    /\ b_cache.shape.has => b_cache'.shape = b_cache.shape
    /\ b_cache.index.has => b_cache'.index = b_cache.index

\* an accessor that has returned has returned the cached value
ReturnsCached ==
    /\ (b_ret.op = "shape" /\ b_ret.exc = None) =>
           /\ b_cache.shape.has
           /\ b_ret.rows = b_cache.shape.rows
           /\ b_ret.ncols = b_cache.shape.ncols
    /\ (b_ret.op = "index" /\ b_ret.exc = None) =>
           /\ b_cache.index.has
           /\ b_ret.coords = b_cache.index.coords

\* C5: column_names, index_names, shape and index are computed on first access
\* and cached; write_batch and every other operation leave the cached values
\* unchanged, so a read after a write returns the value of the first read
\* even though the stored data changed.
C5_CacheNeverInvalidated == [][CacheKept]_vars /\ []ReturnsCached

\* shape has been read again after a write and no longer describes the array
C5_Witness ==
    /\ b_call.op = "shape"
    /\ b_ret.op = "shape"
    /\ b_ret.rows # ShapeRows(b_kind, b_coords)
    /\ b_cache.index.has
    /\ b_cache.index.coords # ComputeIndex(b_kind, b_coords).coords

\* C6: for an adapter of a uri, the handles the adapter holds open are those
\* of the open_array scopes in progress, so that once an operation has
\* returned or raised no handle opened by the adapter is open.
C6_ScopedRelease ==
    ~b_ad.passed =>
        /\ Len(b_handles) = Cardinality(OwnScopes(b_stack))
        /\ b_stack = <<>> => b_handles = <<>>

\* a read opened two handles, one in a nested scope, and then raised
C6_Witness ==
    /\ ~b_ad.passed
    /\ b_call.op \in Reads
    /\ b_ret.exc = "EngineError"
    /\ b_opens = 2
    /\ b_handles = <<>>

\* the caller's array goes from open to closed only by the caller's own close
BorrowedKeptOpen ==
    (b_ad'.passed /\ b_ext.isopen /\ ~b_ext'.isopen) => b_call'.op = "ext_close"

\* C7: an adapter built on the caller's open array never closes it, whatever
\* the operations, and opens no handle of its own.
C7_BorrowedNeverClosed ==
    [][BorrowedKeptOpen]_vars /\ [](b_ad.passed => b_handles = <<>>)

\* a read with a nested column_names has returned and the caller's array is open
C7_Witness ==
    /\ b_ad.passed
    /\ b_ret.op = "read_slice"
    /\ b_ret.exc = None
    /\ b_cache.column_names
    /\ b_ext.isopen

\* C8: entering open_array on a caller's array found closed attempts exactly
\* one reopen; on success the reopened array is yielded, on failure
\* tiledb.TileDBError is raised before the body runs and nothing is yielded.
C8_StaleReopen ==
    b_ad.passed =>
        /\ b_scope.reopens = IF b_scope.stale THEN 1 ELSE 0
        /\ b_scope.stale =>
               \/ /\ b_scope.yielded = "ext"
                  /\ b_stack # <<>> => b_ext.isopen
               \/ /\ b_scope.yielded = None
                  /\ ~b_scope.body
                  /\ b_stack = <<>>
                  /\ b_ret.exc = "TileDBError"
                  /\ ~b_ext.isopen

\* the reopen of a closed caller's array has failed
C8_Witness ==
    /\ b_ad.passed
    /\ b_scope.stale
    /\ b_scope.reopens = 1
    /\ b_ret.exc = "TileDBError"

\* the arguments of a construction the claim calls misconfigured
Misconfigured ==
    /\ b_call.op = "construct"
    /\ \/ b_call.useExt /\ b_call.mode # None /\ b_call.mode # b_ext.mode
       \/ ~b_call.useUri /\ ~b_call.useExt

\* C9: a construction with a caller's array of another mode than requested, or
\* with neither uri nor array, raises without opening any array, and
\* create_cellarr_frame(sparse=False) without a dataframe raises without
\* creating any array.
C9_ConfigErrorsFirst ==
    /\ Misconfigured =>
           /\ b_ret.exc = "ValueError"
           /\ b_ad.state = "failed"
           /\ b_stack = <<>>
           /\ b_opens = 0
           /\ b_handles = <<>>
    /\ (b_call.op = "create" /\ ~b_call.sparse /\ ~b_call.df) =>
           /\ b_ret.exc = "ValueError"
           /\ b_ad.state = "failed"
           /\ b_creates = 0
           /\ ~b_exists
           /\ b_opens = 0

\* the caller's array is open in another mode than the one requested
C9_Witness ==
    /\ b_call.op = "construct"
    /\ b_call.useExt
    /\ b_ext.isopen
    /\ b_call.mode # None
    /\ b_call.mode # b_ext.mode
    /\ b_ret.exc = "ValueError"

\* shape has just computed and stored its value
ShapeComputed ==
    /\ b_stack # <<>>
    /\ Top(b_stack).op = "shape"
    /\ Top(b_stack).ph = "exit"

NumericKeyed(kind) == kind.dtype \in {"int", "float"}

\* coordinates per unit of the first dimension
Unit(kind) == IF kind.dtype = "float" THEN 2 ELSE 1

\* the whole part of a bound
Whole(kind, c) == CHOOSE n \in 0..c : Unit(kind) * n <= c /\ c < Unit(kind) * (n + 1)

DenseRowCount ==
    ~b_kind.sparse =>
        b_cache.shape.rows = IF NumericKeyed(b_kind) THEN b_kind.dmax - b_kind.dmin + 1 ELSE -1

IntKeyedSparse == b_kind.sparse /\ b_kind.dtype = "int"

\* C11 as stated: whatever the writes and shape reads before, the row count
\* shape returns is at least the number of coordinates that hold data now
C11_UpperBoundAsStated ==
    (IntKeyedSparse /\ b_ret.op = "shape" /\ b_ret.exc = None) =>
        b_ret.rows >= Cardinality(b_coords)

\* C11: for a sparse array with an integer first dimension, the row count
\* shape computes on its first, uncached access is at least the number of
\* distinct first-dimension coordinates that hold data at that time, and the
\* row count shape returns is that cached value.
C11_UpperBound ==
    /\ (IntKeyedSparse /\ ShapeComputed) => b_cache.shape.rows >= Cardinality(b_coords)
    /\ (IntKeyedSparse /\ b_ret.op = "shape" /\ b_ret.exc = None) =>
           b_ret.rows = b_cache.shape.rows

\* the span computed is larger than the number of coordinates written before
C11_Witness ==
    /\ IntKeyedSparse
    /\ ShapeComputed
    /\ b_call.op = "shape"
    /\ Cardinality(b_coords) >= 2
    /\ b_cache.shape.rows > Cardinality(b_coords)

----------------------------------------------------------------------------
(* Claims on the dense writes *)

\* the row count before an append: the largest written row index + 1
RowCount(rows) == IF DOMAIN rows = {} THEN 0 ELSE Max(DOMAIN rows) + 1

\* what an append of df without row_offset is to do: the rows of df follow
\* the last written row, and the rows written before stay
DefaultEffect(df) ==
    /\ DOMAIN d_rows' = DOMAIN d_rows \cup (RowCount(d_rows)..(RowCount(d_rows) + Len(df) - 1))
    /\ \A i \in DOMAIN d_rows : d_rows'[i] = d_rows[i]
    /\ \A j \in 1..Len(df) : d_rows'[RowCount(d_rows) + j - 1] = df[j]

\* C12: append_dataframe without row_offset writes at the current row count
\* (largest written row index + 1, 0 when nothing is written); after default
\* appends alone on an array that started empty, the stored rows are the
\* appended frames one after another, without gap or overwritten row.
C12_DefaultAppend ==
    /\ [][\A df \in DenseFrames : AppendDataframe(df, FALSE, 0) => DefaultEffect(df)]_vars
    /\ [](d_hist.pure => d_rows = [i \in 0..(Len(d_hist.cat) - 1) |-> d_hist.cat[i + 1]])

\* two frames appended to an array that started empty
C12_Witness ==
    /\ d_op = "append"
    /\ d_hist.pure
    /\ d_hist.n >= 2
    /\ DOMAIN d_rows = 0..(Len(d_hist.cat) - 1)

\* what an append of df at row_offset k is to do: the rows k .. k + len(df) - 1
\* are those of df, every other row is as it was, written or not
ExplicitEffect(df, k) ==
    /\ \A i \in k..(k + Len(df) - 1) : i \in DOMAIN d_rows' /\ d_rows'[i] = df[i - k + 1]
    /\ \A i \in DenseDomain \ (k..(k + Len(df) - 1)) :
           /\ i \in DOMAIN d_rows' <=> i \in DOMAIN d_rows
           /\ i \in DOMAIN d_rows => d_rows'[i] = d_rows[i]
    /\ DOMAIN d_rows' \subseteq DenseDomain

\* C13: append_dataframe(df, row_offset=k) replaces exactly the rows
\* k .. k + len(df) - 1 with the rows of df and leaves every other row,
\* written or unwritten, as it was.
C13_ExplicitAppend ==
    [][\A df \in DenseFrames, k \in DenseDomain :
           AppendDataframe(df, TRUE, k) => ExplicitEffect(df, k)]_vars

\* an append at an offset above the row count: the rows below it that were
\* unwritten still are
C13_Witness ==
    /\ d_op = "append"
    /\ ~d_hist.pure
    /\ \E i \in DenseDomain : i \notin DOMAIN d_rows /\ i < RowCount(d_rows)

----------------------------------------------------------------------------
(* Claims on the sparse reads *)

\* the stored records a query matches, those of the rows of a subset
QueryRecords(q) == {p \in DOMAIN sp_store : sp_store[p] = q}

SubsetRecords(sub) == {p \in DOMAIN sp_store : sub.lo <= p[1] /\ p[1] < sub.hi}

\* the records of the source the arguments of the last read name
SourceRecords ==
    IF sp_args.query # None THEN QueryRecords(sp_args.query)
    ELSE IF sp_args.subset.given THEN SubsetRecords(sp_args.subset)
    ELSE DOMAIN sp_store

\* the coordinates at which the frame read holds a value
ResultRecords == {p \in DOMAIN sp_res.cell : sp_res.cell[p] # NaN}

\* C14: read_dataframe uses exactly one record source per call: the query when
\* a query is given, even with a subset, otherwise the subset when one is
\* given, otherwise a full scan.
C14_SelectorPrecedence ==
    sp_op = "read" =>
        /\ Len(sp_fetch) = 1
        /\ sp_fetch[1].kind = IF sp_args.query # None THEN "query"
                              ELSE IF sp_args.subset.given THEN "subset" ELSE "scan"
        /\ sp_fetch[1].query = sp_args.query
        /\ sp_fetch[1].kind = "subset" => sp_fetch[1].subset = sp_args.subset
        /\ sp_args.columns = NoColumns => ResultRecords = SourceRecords

\* a query and a subset together: a record the query matches is read from a
\* row outside the subset
C14_Witness ==
    /\ sp_op = "read"
    /\ sp_args.query # None
    /\ sp_args.subset.given
    /\ \E p \in ResultRecords : ~(sp_args.subset.lo <= p[1] /\ p[1] < sp_args.subset.hi)

\* C15: when the selected set of records is empty (empty array, or a subset or
\* query that matches nothing), read_dataframe raises nothing and returns a
\* frame without rows and without columns, also when columns were asked.
C15_EmptyRecordSet ==
    (sp_op = "read" /\ SourceRecords = {}) => sp_res = EmptyFrame

\* columns asked of an array that holds records, none of them selected
C15_Witness ==
    /\ sp_op = "read"
    /\ DOMAIN sp_store # {}
    /\ SourceRecords = {}
    /\ sp_args.columns # NoColumns
    /\ sp_res = EmptyFrame

\* the value read for a stored string every record of its column shares
ReadValue(t) == IF IsNumericStr(t) THEN IntV(ParseInt(t)) ELSE StrV(t)

\* C16: read_dataframe(query=c) returns the pivot of exactly the stored
\* records whose value satisfies c: one row per row label with a matching
\* record, none for the other labels, the matching values in their cells.
C16_QueryRead ==
    (sp_op = "read" /\ sp_args.query # None /\ sp_args.columns = NoColumns) =>
        LET hits == QueryRecords(sp_args.query)
        IN  /\ sp_res.tag = "frame"
            /\ sp_res.idx = SortedSeq({p[1] : p \in hits})
            /\ sp_res.cols = SortedSeq({p[2] : p \in hits})
            /\ \A p \in DOMAIN sp_res.cell :
                   sp_res.cell[p] = IF p \in hits THEN ReadValue(sp_args.query) ELSE NaN

\* one row is read of an array that holds two
C16_Witness ==
    /\ sp_op = "read"
    /\ sp_args.query # None
    /\ sp_args.columns = NoColumns
    /\ Len(sp_res.idx) = 1
    /\ Cardinality({p[1] : p \in DOMAIN sp_store}) = 2

----------------------------------------------------------------------------
(* Claims on indexing *)

\* the positions a positional column selector names, in order
Positions(cols) ==
    IF cols.kind \in {"slice", "range"}
    THEN [j \in 1..(IF cols.hi > cols.lo THEN cols.hi - cols.lo ELSE 0) |-> cols.lo + j - 1]
    ELSE cols.pos

\* a list, slice or range of positions, all of them within bounds
PositionalWithin(cols) ==
    /\ cols.kind \in {"positions", "slice", "range"}
    /\ \A j \in DOMAIN Positions(cols) :
           0 <= Positions(cols)[j] /\ Positions(cols)[j] < Len(AttrNames)

\* C17: ddf[rows, P] with P a list, slice or range of positions within bounds
\* returns exactly the columns columns[i] for i in P, in that order.
C17_DensePositional ==
    (d_op = "dense_tuple" /\ PositionalWithin(d_args.colsel)) =>
        /\ d_res.tag = "frame"
        /\ d_res.cols = [j \in DOMAIN Positions(d_args.colsel) |->
                            AttrNames[Positions(d_args.colsel)[j] + 1]]

\* C17 for selections of one position or more
C17_DensePositionalNonEmpty ==
    (d_op = "dense_tuple" /\ PositionalWithin(d_args.colsel)
        /\ Positions(d_args.colsel) # <<>>) =>
        /\ d_res.tag = "frame"
        /\ d_res.cols = [j \in DOMAIN Positions(d_args.colsel) |->
                            AttrNames[Positions(d_args.colsel)[j] + 1]]

\* ddf[0:2, [0]] returns the first column alone
C17_Witness ==
    /\ d_op = "dense_tuple"
    /\ d_args.sub = Slice(TRUE, 0, TRUE, 2)
    /\ d_args.colsel = ColPositions(<<0>>)
    /\ d_res.cols = <<"val">>
    /\ Len(d_res.idx) = 2

\* the written rows that satisfy a condition
Satisfying(key) == {i \in DOMAIN d_rows : Match(d_rows[i], key)}

\* the rows between the first and the last written row, written or not
Spanned == {i \in DenseDomain : \E a, b \in DOMAIN d_rows : a <= i /\ i <= b}

\* a frame of all the columns whose rows are the written rows satisfying key
IsFiltered(f, key) ==
    /\ f.tag = "frame"
    /\ f.cols = AttrNames
    /\ f.idx = SortedSeq(Satisfying(key))
    /\ \A i \in Satisfying(key), a \in Range(AttrNames) : f.cell[<<i, a>>] = d_rows[i][a]

\* C18 as stated: on CellArrayFrame and on DenseCellArrayFrame alike, frame[s]
\* takes the string s for a filter condition and returns the rows satisfying
\* it with all columns; s is never taken for a column name.
C18_StringKeyFilter ==
    d_op \in {"frame_str", "dense_str"} =>
        /\ d_args.key \in Conds => IsFiltered(d_res, d_args.key)
        /\ d_args.key \notin Conds => d_res.tag # "frame"

\* C18: CellArrayFrame takes a string key for a condition handed to the
\* engine with all columns: on a sparse array the rows satisfying it come
\* back; on a dense array every row between the first and the last written
\* one comes back, the rows that do not satisfy it with fill values; a string
\* that is no condition is an error.  DenseCellArrayFrame takes a string key
\* for a column name: ddf[s] is that column alone over every row between the
\* first and the last written one, and a KeyError when s is no column.
C18_StringKey ==
    /\ (d_op = "frame_str" /\ d_args.key \in Conds /\ d_sparse) =>
           IsFiltered(d_res, d_args.key)
    /\ (d_op = "frame_str" /\ d_args.key \in Conds /\ ~d_sparse) =>
           /\ d_res.tag = "frame"
           /\ d_res.cols = AttrNames
           /\ d_res.idx = SortedSeq(Spanned)
           /\ \A i \in Spanned, a \in Range(AttrNames) :
                  d_res.cell[<<i, a>>] =
                      IF i \in Satisfying(d_args.key) THEN d_rows[i][a] ELSE FillCell(a)
    /\ (d_op = "frame_str" /\ d_args.key \notin Conds) => d_res.tag = "EngineError"
    /\ (d_op = "dense_str" /\ d_args.key \notin Conds) =>
           /\ d_res.tag = "frame"
           /\ d_res.cols = <<d_args.key.attr>>
           /\ d_res.idx = SortedSeq(Spanned)
           /\ \A i \in DOMAIN d_rows : d_res.cell[<<i, d_args.key.attr>>] = d_rows[i][d_args.key.attr]
    /\ (d_op = "dense_str" /\ d_args.key \in Conds) => d_res.tag = "KeyError"

\* ddf["val"] on an array of two written rows, the second of which does not
\* satisfy val == 1: the column val of both rows
C18_Witness ==
    /\ d_op = "dense_str"
    /\ d_args.key = BareName("val")
    /\ DOMAIN d_rows = {0, 1}
    /\ d_rows[1].val # IntV(1)
    /\ d_res.cols = <<"val">>
    /\ d_res.idx = <<0, 1>>

\* the columns a selector names: the names themselves, or the columns at its
\* positions
SelectedColumns(cols) ==
    IF cols.kind \in {"name", "names"} THEN cols.names
    ELSE [j \in DOMAIN Positions(cols) |-> AttrNames[Positions(cols)[j] + 1]]

\* a selector by name, or by positions within bounds
SelectorWithin(cols) ==
    \/ cols.kind \in {"name", "names"}
    \/ /\ cols.kind \in {"pos", "positions", "slice", "range"}
       /\ \A j \in DOMAIN Positions(cols) :
              0 <= Positions(cols)[j] /\ Positions(cols)[j] < Len(AttrNames)

\* C19 as stated: cf[rows, C] on a CellArrayFrame takes for C a name, a list
\* of names, a position, or a list, slice or range of positions, positions
\* being resolved against column_names: the result holds exactly the columns
\* selected, and cf[rows, "c"] equals cf[rows, ["c"]].
C19_FrameColumnSelectors ==
    (d_op = "frame_tuple" /\ SelectorWithin(d_args.colsel)) =>
        /\ d_res.tag = "frame"
        /\ d_res.cols = SelectedColumns(d_args.colsel)
        /\ d_args.colsel.kind = "name" =>
               d_res = FrameGetItemTupleResult(d_sparse, d_rows, d_args.sub,
                                               ColNames(d_args.colsel.names))

\* C19 for the selectors by name: a name and the list of that name select
\* the same columns, those named
C19_FrameNamedSelectors ==
    (d_op = "frame_tuple" /\ d_args.colsel.kind \in {"name", "names"}) =>
        /\ d_res.tag = "frame"
        /\ d_res.cols = d_args.colsel.names
        /\ d_args.colsel.kind = "name" =>
               d_res = FrameGetItemTupleResult(d_sparse, d_rows, d_args.sub,
                                               ColNames(d_args.colsel.names))

\* cf[0:2, 0:2] is refused by the engine
C19_Witness ==
    /\ d_op = "frame_tuple"
    /\ d_args.sub = Slice(TRUE, 0, TRUE, 2)
    /\ d_args.colsel = ColSlice(0, 2)
    /\ DOMAIN d_rows = {0, 1}
    /\ d_res.tag = "EngineError"

----------------------------------------------------------------------------
(* Claims on the fill filter's column *)

\* the column the rows are filtered on when no primary key is given: the
\* first column fetched
FirstFetched == IF d_args.columns # NoColumns THEN d_args.columns[1] ELSE AttrNames[1]

\* a read with a query and without primary_key_column_name
AutoKeyRead == d_op = "read_dataframe" /\ d_args.cond # NoCond /\ d_args.pk = None

----------------------------------------------------------------------------
(* Claims on the empty slices *)

\* a row slice that selects no row under half-open semantics: :0, or k:k
EmptyHalfOpen(sub) ==
    /\ sub.kind = "slice"
    /\ sub.hasStop
    /\ IF sub.hasStart THEN sub.start = sub.stop /\ sub.start >= 0 ELSE sub.stop = 0

\* the last operation read through such a slice
EmptySliceRead ==
    /\ d_op \in {"read_dataframe", "getitem", "read_slice"}
    /\ d_args.cond = NoCond
    /\ EmptyHalfOpen(d_args.sub)

\* C21 as stated: a row slice :0 or k:k yields a result with zero rows, the
\* stop handed to the engine for :0 being -1; the row at index stop never
\* comes back.
C21_EmptySlice ==
    EmptySliceRead =>
        /\ d_res.tag = "frame"
        /\ d_res.idx = <<>>
        /\ ~d_args.sub.hasStart => d_engine.stop = -1

\* C21 for CellArrayFrame._read_slice: :0 reaches the engine with stop -1,
\* k:k with stop k - 1, and no row comes back
C21_FrameEmptySlice ==
    (EmptySliceRead /\ d_op = "read_slice") =>
        /\ d_res.tag = "frame"
        /\ d_res.idx = <<>>
        /\ d_engine.stop = IF d_args.sub.hasStart THEN d_args.sub.stop - 1 ELSE -1

\* ddf[1:1] on an array whose row 1 is written: the slice reaches the engine
\* as it is, and row 1 comes back
C21_Witness ==
    /\ EmptySliceRead
    /\ d_op = "getitem"
    /\ d_args.sub = Slice(TRUE, 1, TRUE, 1)
    /\ 1 \in DOMAIN d_rows
    /\ d_engine = d_args.sub
    /\ d_res.idx = <<1>>

----------------------------------------------------------------------------
(* Claims on the coercion of the sparse reads *)

\* the string form of a cell that is not missing
StringForm(v) == IF v.k = "int" THEN Digits[v.n] ELSE v.s

\* the labels of the stored records, as the pivot orders them
StoredRows == SortedLabels({p[1] : p \in DOMAIN lb_store})

StoredCols == SortedLabels({p[2] : p \in DOMAIN lb_store})

\* an axis is read as numbers when every label of it is one or spells one,
\* and as it is stored otherwise
AxisAsRead(axis) ==
    IF \A i \in DOMAIN axis : axis[i].k = "int" \/ axis[i].s \in Range(Digits)
    THEN [i \in DOMAIN axis |->
             IF axis[i].k = "int" THEN axis[i]
             ELSE IntV(CHOOSE n \in DOMAIN Digits : Digits[n] = axis[i].s)]
    ELSE axis

\* the stored strings of a column spell numbers, all of them
NumericColumn(c) ==
    \A p \in DOMAIN lb_store : p[2] = c => lb_store[p] \in Range(Digits)

\* a stored string as it is read in a column
CellAsRead(t, numeric) ==
    IF numeric THEN IntV(CHOOSE n \in DOMAIN Digits : Digits[n] = t) ELSE StrV(t)

\* C22: write_dataframe stores the string form of every non-missing cell and
\* nothing else; read_dataframe makes the row index, the column index and each
\* column numeric on its own: what holds a non-numeric value comes back as
\* stored, without error, whatever becomes of the other axes and columns.
C22_CoercionOnRead ==
    /\ lb_op \in {"write", "read"} =>
           /\ DOMAIN lb_store = {p \in DOMAIN lb_df.cell : lb_df.cell[p].k # "nan"}
           /\ \A p \in DOMAIN lb_store : lb_store[p] = StringForm(lb_df.cell[p])
    /\ (lb_op = "read" /\ DOMAIN lb_store # {}) =>
           /\ lb_res.tag = "frame"
           /\ lb_res.idx = AxisAsRead(StoredRows)
           /\ lb_res.cols = AxisAsRead(StoredCols)
           /\ \A i \in DOMAIN StoredRows, j \in DOMAIN StoredCols :
                  lb_res.cell[<<lb_res.idx[i], lb_res.cols[j]>>] =
                      IF <<StoredRows[i], StoredCols[j]>> \in DOMAIN lb_store
                      THEN CellAsRead(lb_store[<<StoredRows[i], StoredCols[j]>>],
                                      NumericColumn(StoredCols[j]))
                      ELSE NaN

\* a row index that is no number and stays a string, a column index of
\* numerals read as numbers, a column read as a number beside a column left
\* a string
C22_Witness ==
    /\ lb_op = "read"
    /\ lb_res.idx = <<StrV("a")>>
    /\ lb_res.cols = <<IntV(1), IntV(2)>>
    /\ StoredCols = <<StrV("1"), StrV("2")>>
    /\ lb_res.cell[<<StrV("a"), IntV(1)>>] = IntV(1)
    /\ lb_res.cell[<<StrV("a"), IntV(2)>>] = StrV("a")

----------------------------------------------------------------------------
(* Claims on write_dataframe and shape of the dense adapter *)

\* the array holds the rows of df at 0 .. len(df) - 1
Holds(rows, df) == \A j \in 1..Len(df) : (j - 1) \in DOMAIN rows /\ rows[j - 1] = df[j]

\* what write_dataframe(df) is to do: the rows 0 .. len(df) - 1 are those of
\* df, every other row is as it was; an array that held df is as it was, its
\* row count too
OverwriteEffect(df) ==
    /\ Holds(d_rows', df)
    /\ \A i \in DenseDomain \ (0..(Len(df) - 1)) :
           /\ i \in DOMAIN d_rows' <=> i \in DOMAIN d_rows
           /\ i \in DOMAIN d_rows => d_rows'[i] = d_rows[i]
    /\ Holds(d_rows, df) => d_rows' = d_rows /\ RowCount(d_rows') = RowCount(d_rows)

\* C23: write_dataframe(df) writes df at rows 0 .. len(df) - 1 whatever the
\* array holds; on an array that already holds df it changes neither the row
\* count nor the contents, and a read of every row that follows returns each
\* row index once.
C23_OverwriteAtZero ==
    /\ [][\A df \in DenseFrames : DenseWriteDataframe(df) => OverwriteEffect(df)]_vars
    /\ []((d_op = "getitem" /\ d_hist.kept) =>
              /\ d_res.idx = SortedSeq(Spanned)
              /\ \A i \in DOMAIN d_rows : d_res.cell[<<i, "val">>] = d_rows[i].val)

\* a frame of two rows written on the array created from it, then read
C23_Witness ==
    /\ d_op = "getitem"
    /\ d_hist.kept
    /\ DOMAIN d_rows = {0, 1}
    /\ d_res.idx = <<0, 1>>

\* C25: shape is (largest written row index + 1, number of attributes), and
\* (0, number of attributes) when no row is written, at every access,
\* whatever appends and writes came before it on the adapter.
C25_ShapeFresh ==
    d_op = "shape" =>
        /\ d_res.tag = "shape"
        /\ d_res.idx[1] = RowCount(d_rows)
        /\ d_res.idx[2] = Len(AttrNames)

\* the shape after default appends to an array that started empty
C25_Witness ==
    /\ d_op = "shape"
    /\ d_hist.pure
    /\ d_hist.n >= 2
    /\ d_res.idx = <<Len(d_hist.cat), 2>>

----------------------------------------------------------------------------
(* Claims on the order of the axes *)

\* a sequence of labels in ascending order, none twice
Ascending(q) == \A i, j \in DOMAIN q : i < j => q[i] < q[j]

\* C24: the rows and the columns of the frame read_dataframe returns are the
\* labels of the records read, in ascending order: the order of the rows and
\* columns of the frames written, and the order of the writes, leave no trace.
C24_PivotOrder ==
    (sp_op = "read" /\ sp_args.columns = NoColumns /\ SourceRecords # {}) =>
        /\ sp_res.tag = "frame"
        /\ Range(sp_res.idx) = {p[1] : p \in SourceRecords}
        /\ Range(sp_res.cols) = {p[2] : p \in SourceRecords}
        /\ Ascending(sp_res.idx)
        /\ Ascending(sp_res.cols)

\* row 2 was written before row 1, and the last frame written has its
\* columns in the order 2, 1: rows and columns are read back as 1, 2
C24_Witness ==
    /\ sp_op = "read"
    /\ sp_args = NoArgs
    /\ sp_nw = 2
    /\ sp_df.idx = <<1>>
    /\ sp_df.cols = <<2, 1>>
    /\ sp_res.idx = <<1, 2>>
    /\ sp_res.cols = <<1, 2>>

----------------------------------------------------------------------------
(* Claims on the mode of the handles *)

\* the mode the claim gives the handle of an operation of a uri adapter: the
\* one the caller's with-block asks for, the configured one when it asks for
\* none, "r" when none is configured; "r" for every operation of the adapter
ClaimedMode(op) ==
    IF op = "scope"
    THEN IF b_call.mode # None THEN b_call.mode
         ELSE IF b_ad.mode # None THEN b_ad.mode ELSE "r"
    ELSE "r"

\* C26: on an adapter built from a uri, open_array(mode=m) opens the array in
\* mode m, and in the configured mode ("r" when there is none) when m is not
\* given: validation, the metadata accessors and the reads hold a handle in
\* mode "r" whatever mode is configured.  On an adapter built on the caller's
\* array no handle is opened and the caller's array is yielded in its own mode.
C26_OpenMode ==
    /\ ~b_ad.passed =>
           /\ Len(b_handles) <= Len(b_stack)
           /\ \A i \in DOMAIN b_handles :
                  b_stack[i].own /\ b_handles[i] = ClaimedMode(b_stack[i].op)
    /\ b_ad.passed =>
           /\ b_handles = <<>>
           /\ b_scope.yielded \in {None, "ext"}
           /\ b_ad.mode = b_ext.mode

\* an adapter configured for writing computes its shape on a read handle
C26_Witness ==
    /\ ~b_ad.passed
    /\ b_ad.mode = "w"
    /\ b_stack # <<>>
    /\ Top(b_stack).op = "shape"
    /\ Top(b_stack).ph = "exit"
    /\ b_handles = <<"r">>

====
